---- MODULE Spec2Model ----
(***************************************************************************)
(* A model of the SON environment: the SON evaluator of                    *)
(* client/src/lib/son/interpreter.ts (its last, complete version, lines    *)
(* 579-1419), the scope chain of environment.ts, the image loader of       *)
(* SonEnvironmentContext.tsx, the Workspace's execute handler and the      *)
(* server's persistence handlers.                                          *)
(*                                                                         *)
(* The evaluator is a recursive function of the program; it is modelled as *)
(* recursive operators that thread the interpreter's heap.  One execution  *)
(* of the Workspace (handleExecute) is one action of the state machine.    *)
(***************************************************************************)
EXTENDS Integers, Sequences, FiniteSets, TLC

VARIABLES
  db,             \* the SQLite store: son_base_environment, son_classes, son_methods
  heap,           \* the client's object graph: environments and JS objects
  environment,    \* SonEnvironmentProvider: id of the root environment, 0 = null
  isLoading,      \* SonEnvironmentProvider: isLoading
  inFlight,       \* GET /base-environment requests not yet answered
  envError,       \* SonEnvironmentProvider: error (TRUE = a message is set)
  result,         \* Workspace: the formatted result of the last evaluation
  execError,      \* Workspace: the error the last evaluation ended with
  consoleOutput,  \* Workspace: the transcript lines
  timers,         \* callbacks scheduled with setTimeout and not yet run
  hostLog,        \* the browser console: lines written by JSBridge log:
  lastSave,       \* the last POST /method request and its response status
  trace,          \* history: events of the last evaluation
  lastCode,       \* Workspace: the code last executed
  runs            \* history: number of executions, reloads and saves so far

vars == <<db, heap, environment, isLoading, inFlight, envError, result, execError,
          consoleOutput, timers, hostLog, lastSave, trace, lastCode, runs>>

\* Bounds of the model
MaxRuns == 2

-----------------------------------------------------------------------------
(* JavaScript strings.  A string is the sequence of its characters, so    *)
(* Len, Head, Tail and SubSeq take it apart; a character is the string of *)
(* length one.                                                             *)

CharAt(s, i) == SubSeq(s, i, i)

startsWith(s, c) == Len(s) > 0 /\ CharAt(s, 1) = c
endsWith(s, c) == Len(s) > 0 /\ CharAt(s, Len(s)) = c
substring1(s) == SubSeq(s, 2, Len(s))
sliceLast(s) == SubSeq(s, 1, Len(s) - 1)
includes(s, c) == \E i \in 1..Len(s) : CharAt(s, i) = c

\* selector.split(':').filter(p => p.length > 0).length: the number of
\* maximal runs of characters other than ':'
keywordParts(s) ==
  Cardinality({i \in 1..Len(s) :
                 CharAt(s, i) # ":" /\ (i = 1 \/ CharAt(s, i - 1) = ":")})

\* selector.split(':').length - 1: the number of ':' characters
splitCount(s) == Cardinality({i \in 1..Len(s) : CharAt(s, i) = ":"})

\* selector === 'value' || /^value:$/ || /^value:(value:)+$/
isValueSelector(s) ==
  \/ s = "value"
  \/ /\ Len(s) > 0
     /\ Len(s) % 6 = 0
     /\ \A i \in 0..(Len(s) \div 6 - 1) : SubSeq(s, 6 * i + 1, 6 * i + 6) = "value:"

\* String.prototype.trim, for the space character
trim(s) ==
  LET inked == {i \in 1..Len(s) : CharAt(s, i) # " "}
  IN IF inked = {} THEN ""
     ELSE SubSeq(s, CHOOSE i \in inked : \A j \in inked : i <= j,
                 CHOOSE i \in inked : \A j \in inked : j <= i)

-----------------------------------------------------------------------------
(* Values (SonValue).  Every value is a record of the same shape:          *)
(*   t = "num"   n the number (s = ".5": n + 1/2)                          *)
(*   t = "str"   s the string                                              *)
(*   t = "bool"  n = 1 true, 0 false   t = "null" / "undef"                *)
(*   t = "arr"   items the elements    t = "obj"  r index in heap.objs     *)
(*   t = "env"   r index in heap.envs  t = "fn"   s the name of a host     *)
(*                                                function, r its object   *)
(*   t = "rec"   a JSON object as text, before JSON.parse; items are "kv"  *)
(*   t = "kv"    s the key, items[1] the value                             *)
(* Arrays are compared by content, objects and environments by identity.   *)

Val(t, n, s, r, items) == [t |-> t, n |-> n, s |-> s, r |-> r, items |-> items]
Num(n) == Val("num", n, "", 0, <<>>)
\* the number n + 1/2: a number with s = ".5"
Half(n) == Val("num", n, ".5", 0, <<>>)
\* Number.isInteger(v)
NumberIsInteger(v) == v.t = "num" /\ v.s = ""
Str(s) == Val("str", 0, s, 0, <<>>)
Bool(b) == Val("bool", IF b THEN 1 ELSE 0, "", 0, <<>>)
Null == Val("null", 0, "", 0, <<>>)
Undef == Val("undef", 0, "", 0, <<>>)
Arr(items) == Val("arr", 0, "", 0, items)
ObjRef(r) == Val("obj", 0, "", r, <<>>)
EnvRef(r) == Val("env", 0, "", r, <<>>)
Fn(name, owner) == Val("fn", 0, name, owner, <<>>)
Rec(kvs) == Val("rec", 0, "", 0, kvs)
KV(k, v) == Val("kv", 0, k, 0, <<v>>)
SymLit(name) == Rec(<<KV("#", Str(name))>>)

\* a JavaScript object or Map: a function from its keys; Put is m[k] = v
EmptyMap == <<>>
Put(m, k, v) == (k :> v) @@ m

\* JavaScript truthiness
Truthy(v) ==
  CASE v.t \in {"null", "undef"} -> FALSE
    [] v.t = "num" -> v.n # 0
    [] v.t = "bool" -> v.n = 1
    [] v.t = "str" -> v.s # ""
    [] OTHER -> TRUE

\* typeof v === 'object' (null included, as in JavaScript)
TypeofObject(v) == v.t \in {"null", "arr", "obj", "env"}

\* property read obj[key]; undefined when absent.  objs[0] stands for {}.
Props(objs, v) == IF v.t = "obj" /\ v.r # 0 THEN objs[v.r] ELSE EmptyMap
GetProp(objs, v, key) ==
  IF key \in DOMAIN Props(objs, v) THEN Props(objs, v)[key] ELSE Undef
HasProp(objs, v, key) == key \in DOMAIN Props(objs, v)

-----------------------------------------------------------------------------
(* Outcomes.  A call either returns a value (k = "ok") or throws; k then   *)
(* names the class of the thrown object, v its value and tgt its           *)
(* homeContext (NonLocalReturnError).                                      *)

Res(st, k, v, tgt) == [st |-> st, k |-> k, v |-> v, tgt |-> tgt]
Ok(st, v) == Res(st, "ok", v, 0)
Throw(st, k) == Res(st, k, Undef, 0)

\* e instanceof SonError: the subclasses of errors.ts
IsSonError(k) ==
  k \in {"SonError", "VariableNotFoundError", "MessageNotUnderstoodError",
         "ArgumentError"}

\* the control-flow classes, which extend Error and not SonError
IsReturnSignal(k) == k \in {"LocalReturnError", "NonLocalReturnError"}

\* history: an event of the evaluation, kept in st.tr
Event(e, env, tgt, k, v, w, s) ==
  [e |-> e, env |-> env, tgt |-> tgt, k |-> k, v |-> v, w |-> w, s |-> s]
\* the fields, by kind of event:
\*   "ret"      `^` threw: env its environment, tgt the home context found
\*              (0 = none), k the class thrown, v the value of the expression
\*   "enter"    a method activation began: env the method context, tgt the
\*              environment the send was evaluated in, w the receiver, s the
\*              selector, v the array of the arguments
\*   "left"     a method activation ended: env the method context, tgt the
\*              environment the send was evaluated in, k the outcome of the
\*              send, w the receiver, s the selector, v the number of
\*              environments on the chain of tgt that are not as they were
\*              when the activation began
\*   "exit"     a method body ran to its end: env the method context, v the
\*              result of the send, w the receiver, s the selector
\*   "catch"    a method activation caught k: env the method context, tgt the
\*              homeContext of the signal, v the value returned, w the receiver
\*   "block"    a closure was created in env: tgt its home context, v the
\*              closure, w the body
\*   "assign"   an assignment form bound s to v in env
\*   "define"   a method definition form was evaluated in env: s the
\*              selector, w the array of its argNames and body nodes, v the
\*              result of the form
\*   "send"     a send or cascade form dispatched a message from env: w the
\*              receiver, s the selector, v the array of the arguments, tgt = 1
\*              for a message of a cascade
\*   "bridge"   a host function of the bridge was called from env: s the
\*              selector, w the array of the receiver and the arguments, k
\*              the outcome of the send, v its value, tgt the number of
\*              callbacks it scheduled
\*   "unwind"   a block invocation was left by a throw: env the environment
\*              of the invocation, w the block, s the class its body threw,
\*              tgt the homeContext of that signal, k the class that left
\*              the invocation, v the array of the value thrown by the body,
\*              the value that left and the homeContext that left
\*   "timer"    a scheduled callback began: env the lexicalScope of its block,
\*              w the block
\*   "callback" a scheduled callback ended: env and w as for "timer", s the
\*              class its body threw ("ok" = none), v the value and tgt the
\*              homeContext of that signal, k the class that left the
\*              callback ("ok" = none)
\*   "fallback" the JavaScript property fallback answered a send: k its
\*              outcome, v its value, w the receiver, s the selector, tgt = 1
\*              when it assigned a property
Log(st, ev) == [st EXCEPT !.tr = Append(@, ev)]

-----------------------------------------------------------------------------
(* SonEnvironment (environment.ts)                                         *)

\* constructor(parent, options)
SonEnvironment(parent, isMethodContext, methodSelf) ==
  [parent |-> parent,
   isMC |-> isMethodContext,
   self |-> methodSelf,
   vars |-> IF isMethodContext /\ methodSelf # Undef
            THEN Put(EmptyMap, "self", methodSelf) ELSE EmptyMap,
   methods |-> EmptyMap]

GetLocalOnly(envs, e, name) ==
  IF name \in DOMAIN envs[e].vars
  THEN [found |-> TRUE, v |-> envs[e].vars[name]]
  ELSE [found |-> FALSE, v |-> Undef]

\* get(name): local first, then the parent chain
RECURSIVE EnvGet(_, _, _)
EnvGet(envs, e, name) ==
  IF name \in DOMAIN envs[e].vars
  THEN [found |-> TRUE, v |-> envs[e].vars[name]]
  ELSE IF envs[e].parent # 0
       THEN EnvGet(envs, envs[e].parent, name)
       ELSE [found |-> FALSE, v |-> Undef]

RECURSIVE BinderOf(_, _, _)
BinderOf(envs, e, name) ==
  IF name \in DOMAIN envs[e].vars THEN e
  ELSE IF envs[e].parent # 0 THEN BinderOf(envs, envs[e].parent, name)
  ELSE e

SetInBinder(st, e, name, value) ==
  [st EXCEPT !.envs[BinderOf(st.envs, e, name)].vars = Put(@, name, value)]

\* set(name, value): the current scope only
EnvSet(st, e, name, value) ==
  [st EXCEPT !.envs[e].vars = Put(@, name, value)]

\* createChild(options): the new environment is the last of the heap
createChild(st, e, isMethodContext, methodSelf) ==
  [st EXCEPT !.envs = Append(@, SonEnvironment(e, isMethodContext, methodSelf))]
NewEnvId(st) == Len(st.envs) + 1

\* defineMethod(selector, argNames, body): a new implementation object
MethodImplementation(selector, argNames, body) ==
  Put(Put(Put(Put(EmptyMap, "__type", Str("SonMethodImplementation")),
              "argNames", Arr(argNames)), "body", body), "selector", Str(selector))

defineMethodOnce(st, e, selector, argNames, body) ==
  IF selector \in DOMAIN st.envs[e].methods
  THEN [st EXCEPT !.objs = Append(@, MethodImplementation(selector, argNames, body))]
  ELSE [st EXCEPT !.objs = Append(@, MethodImplementation(selector, argNames, body)),
                  !.envs[e].methods = Put(@, selector, ObjRef(Len(st.objs) + 1))]

defineMethod(st, e, selector, argNames, body) ==
  LET o == Len(st.objs) + 1
  IN [st EXCEPT !.objs = Append(@, MethodImplementation(selector, argNames, body)),
                !.envs[e].methods = Put(@, selector, ObjRef(o))]

\* lookupMethodLocally(selector): this.methods.get(selector) || null
lookupMethodLocally(envs, e, selector) ==
  IF selector \in DOMAIN envs[e].methods THEN envs[e].methods[selector] ELSE Null

-----------------------------------------------------------------------------
(* Type guards and helpers of the interpreter                              *)

isSonSymbol(objs, v) ==
  v.t = "obj" /\ HasProp(objs, v, "#") /\ GetProp(objs, v, "#").t = "str"

isSonBlock(objs, v) ==
  v.t = "obj" /\ GetProp(objs, v, "__type") = Str("SonBlock")

isJsBridge(objs, v) ==
  v.t = "obj" /\ GetProp(objs, v, "__isJSBridge") = Bool(TRUE)

isPlainObject(objs, v) ==
  v.t \in {"obj", "env"} /\ ~isSonSymbol(objs, v) /\ ~isSonBlock(objs, v)
  /\ ~isJsBridge(objs, v)

\* findHomeContext(startEnv): the nearest method context, 0 = null
RECURSIVE findHomeContext(_, _)
findHomeContext(envs, e) ==
  IF e = 0 THEN 0
  ELSE IF envs[e].isMC THEN e
  ELSE findHomeContext(envs, envs[e].parent)

\* the class name getClassOf picks for a value ("" = none)
ClassNameOf(objs, value) ==
  CASE value.t = "null" -> "UndefinedObject"
    [] value.t = "num" -> "Number"
    [] value.t = "str" -> "String"
    [] value.t = "bool" -> "Boolean"
    [] isSonSymbol(objs, value) -> "Symbol"
    [] isSonBlock(objs, value) -> "BlockClosure"
    [] value.t \in {"obj", "arr"} -> "Object"
    [] OTHER -> ""

\* env.get(className) and the checks of the class object (lines 698-735)
RECURSIVE ClassByName(_, _, _)
ClassByName(st, className, e) ==
  LET check(found, classObj) ==
        IF ~found
        THEN IF className = "Object" THEN Throw(st, "Error")
             ELSE ClassByName(st, "Object", e)
        ELSE IF classObj.t = "env"
                \/ (classObj.t = "obj"
                    /\ GetProp(st.objs, classObj, "lookupMethodLocally").t = "fn")
             THEN Ok(st, classObj)
        ELSE IF isPlainObject(st.objs, classObj)
                /\ Truthy(GetProp(st.objs, classObj, "methods"))
             THEN Ok(st, classObj)
        ELSE IF className # "Object" THEN ClassByName(st, "Object", e)
        ELSE Ok(st, Null)
      lookup(got) == check(got.found, got.v)
  IN lookup(EnvGet(st.envs, e, className))

\* getClassOf(value, env)
RECURSIVE getClassOf(_, _, _)
getClassOf(st, value, e) ==
  IF value.t = "str" /\ startsWith(value.s, "$")
  THEN \* an unevaluated variable string: evaluate it and recurse
       LET varName == substring1(value.s)
           got == EnvGet(st.envs, e, varName)
           inner == IF varName = "env" THEN getClassOf(st, EnvRef(e), e)
                    ELSE getClassOf(st, got.v, e)
       IN IF varName # "" /\ (varName = "env" \/ got.found) /\ inner.k = "ok"
          THEN inner
          ELSE ClassByName(st, "String", e)
  ELSE IF value.t \in {"null", "num", "str", "bool"}
          \/ isSonSymbol(st.objs, value) \/ isSonBlock(st.objs, value)
       THEN ClassByName(st, ClassNameOf(st.objs, value), e)
  ELSE IF isJsBridge(st.objs, value) THEN Ok(st, Null)
  ELSE IF value.t = "env" THEN Ok(st, value)
  ELSE IF ClassNameOf(st.objs, value) # ""
       THEN ClassByName(st, ClassNameOf(st.objs, value), e)
  ELSE \* no class name: getClassOf({}, env), a failure becoming a new Error
       LET fallback == ClassByName(st, "Object", e)
       IN IF fallback.k = "ok" THEN fallback ELSE Throw(st, "Error")

\* String(v), for the values the model converts
JsString(v) ==
  CASE v.t = "str" -> v.s
    [] v.t = "null" -> "null"
    [] v.t = "undef" -> "undefined"
    [] v.t = "bool" -> IF v.n = 1 THEN "true" ELSE "false"
    [] v.t = "obj" -> "[object Object]"
    [] v.t = "num" /\ v.n \in 0..9 ->
         <<"0", "1", "2", "3", "4", "5", "6", "7", "8", "9">>[v.n + 1]

\* items.map(String)
RECURSIVE MapString(_)
MapString(items) ==
  IF items = <<>> THEN <<>>
  ELSE <<Str(JsString(Head(items)))>> \o MapString(Tail(items))

-----------------------------------------------------------------------------
(* Method lookup (findMethodRecursively, a closure of sendMessage)         *)

NoMethod(st, k) ==
  [st |-> st, k |-> k, kind |-> "none", primitive |-> "", argNames |-> <<>>,
   body |-> Undef]

\* the method data found on the class object itself (lines 975-985)
RawMethodData(st, currentClassObject, targetSelector) ==
  IF currentClassObject.t = "env"
  THEN lookupMethodLocally(st.envs, currentClassObject.r, targetSelector)
  ELSE IF isPlainObject(st.objs, currentClassObject)
          /\ Truthy(GetProp(st.objs, currentClassObject, "methods"))
       THEN GetProp(st.objs, GetProp(st.objs, currentClassObject, "methods"),
                    targetSelector)
       ELSE Null

\* Line 1012 reads `className`.  sendMessage and the module declare no such
\* name (it is a local of getClassOf), so the read throws a ReferenceError.
ReadClassName == "ReferenceError"

\* the superclass step (lines 1010-1021), reached when the class itself gave
\* no usable method: `currentClassObject !== env.get('Object') && className
\* !== 'Object'`
CheckSuperclass(st, e, currentClassObject) ==
  LET object == EnvGet(st.envs, e, "Object")
  IN IF ~object.found THEN NoMethod(st, "VariableNotFoundError")
     ELSE IF currentClassObject # object.v THEN NoMethod(st, ReadClassName)
     ELSE NoMethod(st, "ok")

findMethodRecursively(st, e, currentClassObject, targetSelector) ==
  LET use(raw) ==
        IF Truthy(raw) /\ TypeofObject(raw)
           /\ GetProp(st.objs, raw, "primitive").t = "str"
        THEN [NoMethod(st, "ok") EXCEPT
                !.kind = "primitive",
                !.primitive = GetProp(st.objs, raw, "primitive").s]
        ELSE IF Truthy(raw) /\ TypeofObject(raw)
                /\ GetProp(st.objs, raw, "argNames").t = "arr"
                /\ GetProp(st.objs, raw, "body").t # "undef"
        THEN [NoMethod(st, "ok") EXCEPT
                !.kind = "impl",
                !.argNames = MapString(GetProp(st.objs, raw, "argNames").items),
                !.body = GetProp(st.objs, raw, "body")]
        ELSE CheckSuperclass(st, e, currentClassObject)
  IN IF ~Truthy(currentClassObject) THEN NoMethod(st, "ok")
     ELSE use(RawMethodData(st, currentClassObject, targetSelector))

-----------------------------------------------------------------------------
(* The host functions of the JSBridge object (SonEnvironmentContext.tsx)   *)

Arg(args, i) == IF i <= Len(args) THEN args[i] ELSE Undef

\* jsBridgeObject['log:'], ['setTimeout:delay:'], ['fetch:options:']
callBridgeFunction(st, fn, args) ==
  CASE fn.s = "log:" ->
         Ok([st EXCEPT !.console = Append(@, JsString(Arg(args, 1)))],
            ObjRef(fn.r))
    [] fn.s = "setTimeout:delay:" ->
         IF ~isSonBlock(st.objs, Arg(args, 1)) THEN Throw(st, "Error")
         ELSE IF ~NumberIsInteger(Arg(args, 2)) \/ Arg(args, 2).n < 0
              THEN Throw(st, "Error")
         ELSE Ok([st EXCEPT !.timers = Append(@, Arg(args, 1))], ObjRef(fn.r))
    [] fn.s = "fetch:options:" -> Ok(st, Null)

-----------------------------------------------------------------------------
(* lookupAndSendJSProperty: the JavaScript property fallback               *)

\* `key in receiver`: a TypeError for a primitive receiver.  Own properties
\* only: the selectors of the model name no inherited property.
InThrows(receiver) == receiver.t \in {"num", "str", "bool"}
In(objs, key, receiver) == HasProp(objs, receiver, key)

\* typeof receiver === 'object' && !(receiver instanceof SonEnvironment) &&
\* !isSonBlock && !isSonSymbol && !isJsBridge
Extensible(objs, receiver) ==
  receiver.t \in {"obj", "arr"} /\ ~isSonBlock(objs, receiver)
  /\ ~isSonSymbol(objs, receiver) /\ ~isJsBridge(objs, receiver)

\* receiver[setterProperty] = value.  An expando property of an array is
\* not kept: arrays are values of the model.
SetProp(st, receiver, key, value) ==
  IF receiver.t = "obj" THEN [st EXCEPT !.objs[receiver.r] = Put(@, key, value)]
  ELSE st

lookupAndSendJSProperty(st, receiver, selector, args) ==
  IF receiver.t = "null" THEN Throw(st, "TypeError")   \* getClassOf(receiver, undefined)
  ELSE IF receiver.t = "undef" THEN Throw(st, "Error")
  ELSE IF Len(args) = 0 /\ InThrows(receiver) THEN Throw(st, "TypeError")
  ELSE IF Len(args) = 0 /\ In(st.objs, selector, receiver)
       THEN Ok(st, GetProp(st.objs, receiver, selector))
  ELSE IF Len(args) = 1 /\ endsWith(selector, ":")
       THEN IF InThrows(receiver) THEN Throw(st, "TypeError")
            ELSE IF In(st.objs, sliceLast(selector), receiver)
                    \/ Extensible(st.objs, receiver)
                 THEN Ok(SetProp(st, receiver, sliceLast(selector), args[1]), args[1])
                 ELSE Throw(st, "MessageNotUnderstoodError")
  ELSE Throw(st, "MessageNotUnderstoodError")

-----------------------------------------------------------------------------
(* The evaluator: evaluate, sendMessage, handlePrimitive                   *)

\* line 1067: which thrown objects a method activation catches
MethodCatches(k, tgt, methodEnv) == IsReturnSignal(k)

HostErrorEscapes(k) == k

\* lines 955-958: what the catch around a bridge function throws
bridgeError(k) == "SonError"

ResultOfLastStatement(receiver, methodResult) == methodResult

\* line 1064: the result of a method whose body ran to its end
ImplicitResult(receiver, methodResult) == receiver

ReturnAlwaysSignals(homeCtx, isMethodContext) ==
  IF isMethodContext THEN "LocalReturnError" ELSE "NonLocalReturnError"

\* lines 1265-1278: what `^` throws, from the home context found (0 = null)
\* and the kind of the current environment
ReturnSignal(homeCtx, isMethodContext) ==
  IF homeCtx = 0 /\ ~isMethodContext THEN "SonError"
  ELSE IF isMethodContext THEN "LocalReturnError"
  ELSE IF homeCtx = 0 THEN "SonError"
  ELSE "NonLocalReturnError"

\* lines 1109-1139: what leaves a block invocation whose body threw
BlockRethrows(r, homeContext) ==
  IF r.k = "NonLocalReturnError"
  THEN IF homeContext.t = "env" /\ r.tgt = homeContext.r THEN r
       ELSE IF homeContext.t = "null" THEN Throw(r.st, "SonError")
       ELSE r
  ELSE IF r.k = "LocalReturnError" THEN Throw(r.st, "SonError")
  ELSE r

\* actualType of checkArgs
ActualType(objs, v) ==
  CASE v.t = "null" -> "null"
    [] isSonSymbol(objs, v) -> "symbol"
    [] isSonBlock(objs, v) -> "block"
    [] v.t = "num" -> "number"
    [] v.t = "str" -> "string"
    [] v.t = "bool" -> "boolean"
    [] v.t = "undef" -> "undefined"
    [] v.t = "fn" -> "function"
    [] OTHER -> "object"

checkArgs(objs, types, actualArgs) ==
  /\ Len(types) = Len(actualArgs)
  /\ \A i \in 1..Len(types) :
       \/ types[i] = "any"
       \/ types[i] = ActualType(objs, actualArgs[i])
       \/ (types[i] = "object" /\ ActualType(objs, actualArgs[i]) = "null")

\* the expected types of each primitive of the model (a part of the switch
\* of handlePrimitive; any other tag is an unknown primitive)
PrimitiveTypes(p) ==
  CASE p \in {"primitive:NumberAdd:", "primitive:NumberMultiply:",
              "primitive:NumberEquals:", "primitive:NumberLessThan:"} ->
         <<"number", "number">>
    [] p \in {"primitive:Equals:", "primitive:NotEquals:",
              "primitive:IdentityEquals:", "primitive:IdentityNotEquals:"} ->
         <<"any", "any">>
    [] p = "primitive:Class:" -> <<"any">>
    [] p = "primitive:BooleanNot" -> <<"boolean">>
    [] p \in {"primitive:BooleanIfTrue:", "primitive:BooleanIfFalse:"} ->
         <<"boolean", "block">>
    [] p = "primitive:BooleanIfTrueIfFalse:" -> <<"boolean", "block", "block">>
    [] p = "primitive:SymbolEquals:" -> <<"symbol", "symbol">>
    [] p \in {"primitive:NilIfNil:", "primitive:NilIfNotNil:"} -> <<"null", "block">>
    [] OTHER -> <<>>

KnownPrimitive(p) == PrimitiveTypes(p) # <<>>

RECURSIVE evaluate(_, _, _)
RECURSIVE sendMessage(_, _, _, _, _)
RECURSIVE evalEach(_, _, _, _)
RECURSIVE runCascade(_, _, _, _)

NeverStops(r) == FALSE

\* a throw of evaluate leaves the loop or the map it was called in
Stops(r) == r.k # "ok"

\* nodes.map(n => evaluate(n, env)), and the statement loops: left to right,
\* ending at the first throw; v is the array of the values
evalEach(st, nodes, e, acc) ==
  IF nodes = <<>> THEN Ok(st, Arr(acc))
  ELSE LET rest(r) == IF Stops(r) THEN r
                      ELSE evalEach(r.st, Tail(nodes), e, Append(acc, r.v))
       IN rest(evaluate(st, Head(nodes), e))

LastOf(vals, default) == IF vals = <<>> THEN default ELSE vals[Len(vals)]

handlePrimitive(st, primitiveSelector, self, args, e) ==
  LET arg1 == Arg(args, 1)
      arg2 == Arg(args, 2)
  IN IF ~KnownPrimitive(primitiveSelector) THEN Throw(st, "SonError")
     ELSE IF ~checkArgs(st.objs, PrimitiveTypes(primitiveSelector), <<self>> \o args)
     THEN Throw(st, "ArgumentError")
     ELSE CASE primitiveSelector = "primitive:NumberAdd:" -> Ok(st, Num(self.n + arg1.n))
            [] primitiveSelector = "primitive:NumberMultiply:" -> Ok(st, Num(self.n * arg1.n))
            [] primitiveSelector = "primitive:NumberLessThan:" -> Ok(st, Bool(self.n < arg1.n))
            [] primitiveSelector \in {"primitive:NumberEquals:", "primitive:Equals:",
                                      "primitive:IdentityEquals:"} ->
                 Ok(st, Bool(self = arg1))
            [] primitiveSelector \in {"primitive:NotEquals:",
                                      "primitive:IdentityNotEquals:"} ->
                 Ok(st, Bool(self # arg1))
            [] primitiveSelector = "primitive:Class:" -> getClassOf(st, self, e)
            [] primitiveSelector = "primitive:BooleanNot" -> Ok(st, Bool(self.n = 0))
            [] primitiveSelector = "primitive:BooleanIfTrue:" ->
                 IF self.n = 1 THEN sendMessage(st, arg1, "value", <<>>, e)
                 ELSE Ok(st, Null)
            [] primitiveSelector = "primitive:BooleanIfFalse:" ->
                 IF self.n = 0 THEN sendMessage(st, arg1, "value", <<>>, e)
                 ELSE Ok(st, Null)
            [] primitiveSelector = "primitive:BooleanIfTrueIfFalse:" ->
                 sendMessage(st, IF self.n = 1 THEN arg1 ELSE arg2, "value", <<>>, e)
            [] primitiveSelector = "primitive:SymbolEquals:" ->
                 Ok(st, Bool(GetProp(st.objs, self, "#") = GetProp(st.objs, arg1, "#")))
            [] primitiveSelector = "primitive:NilIfNil:" ->
                 sendMessage(st, arg1, "value", <<>>, e)
            [] primitiveSelector = "primitive:NilIfNotNil:" -> Ok(st, Null)

RECURSIVE BindArgs(_, _, _, _)
BindArgs(st, e, argNames, args) ==
  IF argNames = <<>> THEN st
  ELSE BindArgs(EnvSet(st, e, Head(argNames).s, Head(args)), e, Tail(argNames),
                Tail(args))

\* history: the environments on the chain of e that differ between two heaps
RECURSIVE ChangedOnChain(_, _, _)
ChangedOnChain(before, after, e) ==
  IF e = 0 THEN {}
  ELSE (IF after[e] # before[e] THEN {e} ELSE {})
       \cup ChangedOnChain(before, after, before[e].parent)

SenderScope(methodEnv, e) == e

\* lines 1047-1049: the environment the arguments are bound in
ArgumentScope(methodEnv, e) == methodEnv

ReceiverAsParent(e, receiver) == IF receiver.t = "env" THEN receiver.r ELSE e

\* line 1042: the environment the method context is a child of, e being the
\* env argument of sendMessage
ActivationParent(e, receiver) == e

\* lines 1040-1075: a SON method runs in a fresh method context
executeMethod(st, receiver, selector, argNames, body, args, e) ==
  LET methodEnv == NewEnvId(st)
      left(out) ==
        [out EXCEPT !.st =
           Log(@, Event("left", methodEnv, e, out.k,
                        Num(Cardinality(ChangedOnChain(st.envs, out.st.envs, e))),
                        receiver, selector))]
      leave(r) ==
        LET methodResult == IF body.t # "arr" THEN r.v ELSE LastOf(r.v.items, Null)
        IN IF r.k = "ok"
           THEN Ok(Log(r.st, Event("exit", methodEnv, 0, "ok",
                                   ImplicitResult(receiver, methodResult), receiver,
                                   selector)),
                   ImplicitResult(receiver, methodResult))
           ELSE IF MethodCatches(r.k, r.tgt, methodEnv)
           THEN Ok(Log(r.st, Event("catch", methodEnv, r.tgt, r.k, r.v, receiver,
                                   selector)),
                   r.v)
           ELSE r
      run(st2) == left(leave(IF body.t # "arr" THEN evaluate(st2, body, methodEnv)
                             ELSE evalEach(st2, body.items, methodEnv, <<>>)))
      enter(st1) == IF Len(argNames) # Len(args) THEN Throw(st1, "ArgumentError")
                    ELSE run(BindArgs(st1, ArgumentScope(methodEnv, e), argNames, args))
  IN enter(Log(createChild(st, ActivationParent(e, receiver), TRUE, receiver),
               Event("enter", methodEnv, e, "ok", Arr(args), receiver, selector)))

\* lines 1079-1140: a block runs in a fresh child of its captured scope
executeBlock(st, receiver, selector, args) ==
  LET expectedArgs == IF selector = "value" THEN 0 ELSE splitCount(selector)
      argNames == GetProp(st.objs, receiver, "argNames").items
      body == GetProp(st.objs, receiver, "body")
      blockEnv == NewEnvId(st)
      unwound(r, out) ==
        [out EXCEPT !.st = Log(@, Event("unwind", blockEnv, r.tgt, out.k,
                                        Arr(<<r.v, out.v, Num(out.tgt)>>), receiver,
                                        r.k))]
      leave(r) == IF r.k = "ok" THEN Ok(r.st, LastOf(r.v.items, Null))
                  ELSE unwound(r, BlockRethrows(r, GetProp(st.objs, receiver,
                                                           "homeContext")))
      enter(st1) ==
        IF body.t # "arr" THEN Throw(st1, "Error")
        ELSE leave(evalEach(BindArgs(st1, blockEnv, argNames, args), body.items,
                            blockEnv, <<>>))
  IN IF Len(args) # expectedArgs THEN Throw(st, "ArgumentError")
     ELSE IF Len(argNames) # Len(args) THEN Throw(st, "ArgumentError")
     ELSE enter(createChild(st, GetProp(st.objs, receiver, "lexicalScope").r, FALSE,
                            Undef))

sendMessage(st, receiver, selector, args, e) ==
  IF isJsBridge(st.objs, receiver)
  THEN \* 1. JSBridge calls: a throw of the host function becomes a SonError
       LET bridgeFunction == GetProp(st.objs, receiver, selector)
           called(r) ==
             LET sent == IF r.k = "ok" THEN r ELSE Throw(r.st, bridgeError(r.k))
             IN [sent EXCEPT !.st = Log(@, Event("bridge", e,
                                                 Len(r.st.timers) - Len(st.timers),
                                                 sent.k, sent.v,
                                                 Arr(<<receiver>> \o args), selector))]
       IN IF bridgeFunction.t # "fn" THEN Throw(st, "MessageNotUnderstoodError")
          ELSE called(callBridgeFunction(st, bridgeFunction, args))
  ELSE
    LET \* 6. the JavaScript property fallback; a MessageNotUnderstood is
        \* thrown again as it is
        fallback(r) ==
          [r EXCEPT !.st = Log(@, Event("fallback", e,
                                        IF r.st.objs # st.objs THEN 1 ELSE 0,
                                        r.k, r.v, receiver, selector))]
        dispatch(lookupResult) ==
          IF lookupResult.k # "ok" THEN Throw(st, lookupResult.k)
          ELSE IF lookupResult.kind = "primitive"
          THEN handlePrimitive(st, lookupResult.primitive, receiver, args, e)
          ELSE IF lookupResult.kind = "impl"
          THEN executeMethod(st, receiver, selector, lookupResult.argNames,
                             lookupResult.body, args, e)
          ELSE IF isSonBlock(st.objs, receiver)
          THEN IF isValueSelector(selector)
               THEN executeBlock(st, receiver, selector, args)
               ELSE \* the lookup on the BlockClosure class repeats the one
                    \* above, which found nothing (lines 1141-1172)
                    Throw(st, "MessageNotUnderstoodError")
          ELSE fallback(lookupAndSendJSProperty(st, receiver, selector, args))
        lookup(classObject) ==
          IF classObject.k # "ok" THEN classObject
          ELSE dispatch(findMethodRecursively(st, e, classObject.v, selector))
    IN lookup(getClassOf(st, receiver, e))

ChainTarget(receiver, sent) == sent.v

\* line 1359: the receiver of the next message of a cascade, after the
\* outcome `sent` of the one before
CascadeTarget(receiver, sent) == receiver

\* the messages of a cascade, in order, each result discarded
runCascade(st, receiver, messages, e) ==
  IF messages = <<>> THEN Ok(st, receiver)
  ELSE
    LET msg == Head(messages)
        next(sent) == IF sent.k # "ok" THEN sent
                      ELSE runCascade(sent.st, CascadeTarget(receiver, sent),
                                      Tail(messages), e)
        send(msgArgs) ==
          IF msgArgs.k # "ok" THEN msgArgs
          ELSE next(sendMessage(Log(msgArgs.st,
                                    Event("send", e, 1, "ok", msgArgs.v, receiver,
                                          msg.items[1].s)),
                                receiver, msg.items[1].s, msgArgs.v.items, e))
    IN IF msg.t # "arr" \/ Len(msg.items) < 1 THEN Throw(st, "ArgumentError")
       ELSE IF msg.items[1].t # "str" THEN Throw(st, "ArgumentError")
       ELSE send(evalEach(st, Tail(msg.items), e, <<>>))

\* lines 1257-1279: ["^", expr]
evaluateReturn(st, sonArray, e) ==
  LET signal(value) ==
        LET homeCtx == findHomeContext(value.st.envs, e)
            thrown == ReturnSignal(homeCtx, value.st.envs[e].isMC)
        IN IF value.k # "ok" THEN value
           ELSE Res(Log(value.st,
                        Event("ret", e, homeCtx, thrown, value.v, Undef, "^")),
                    thrown,
                    IF thrown = "SonError" THEN Undef ELSE value.v,
                    IF thrown = "NonLocalReturnError" THEN homeCtx ELSE 0)
  IN IF Len(sonArray) # 2 THEN Throw(st, "ArgumentError")
     ELSE signal(evaluate(st, sonArray[2], e))

AllStrings(items) == \A i \in 1..Len(items) : items[i].t = "str"

\* lines 1281-1303: ["define:args:body:", selector, argNames, body]
evaluateDefine(st, sonArray, e) ==
  IF Len(sonArray) # 4 THEN Throw(st, "ArgumentError")
  ELSE IF sonArray[2].t # "str" THEN Throw(st, "ArgumentError")
  ELSE IF sonArray[3].t # "arr" THEN Throw(st, "ArgumentError")
  ELSE IF ~AllStrings(sonArray[3].items) THEN Throw(st, "ArgumentError")
  ELSE LET st1 == defineMethod(st, e, sonArray[2].s, sonArray[3].items, sonArray[4])
           symbol == Len(st1.objs) + 1
       IN Ok(Log([st1 EXCEPT !.objs = Append(@, Put(EmptyMap, "#", sonArray[2]))],
                 Event("define", e, 0, "ok", ObjRef(symbol),
                       Arr(<<sonArray[3], sonArray[4]>>), sonArray[2].s)),
             ObjRef(symbol))

\* line 1307: the shape of an assignment
isAssignment(sonArray) ==
  /\ Len(sonArray) = 2
  /\ sonArray[1].t = "str"
  /\ endsWith(sonArray[1].s, ":")
  /\ Len(sonArray[1].s) > 1
  /\ ~includes(sliceLast(sonArray[1].s), ":")
  /\ sliceLast(sonArray[1].s) # "^"

\* lines 1324-1339: the block definition check and the new closure
isBlockDefinition(evaluatedFirst, remainingNodes) ==
  /\ Len(remainingNodes) = 2
  /\ evaluatedFirst.t = "arr"
  /\ remainingNodes[1] = Str("=>:")
  /\ remainingNodes[2].t = "arr"

SonBlock(argNames, body, lexicalScope, homeCtx) ==
  Put(Put(Put(Put(Put(EmptyMap, "__type", Str("SonBlock")),
                  "argNames", Arr(argNames)), "body", body),
          "lexicalScope", EnvRef(lexicalScope)),
      "homeContext", IF homeCtx = 0 THEN Null ELSE EnvRef(homeCtx))

createBlock(st, argNodes, body, e) ==
  IF ~AllStrings(argNodes) THEN Throw(st, "ArgumentError")
  ELSE LET block == Len(st.objs) + 1
           made == [st EXCEPT !.objs =
                      Append(@, SonBlock(argNodes, body, e, findHomeContext(st.envs, e)))]
       IN Ok(Log(made, Event("block", e, findHomeContext(st.envs, e), "ok",
                             ObjRef(block), body, "=>:")),
             ObjRef(block))

\* lines 1364-1395: the message send check
evaluateSend(st, evaluatedFirst, remainingNodes, e) ==
  LET selector == remainingNodes[1].s
      argNodes == Tail(remainingNodes)
      send(args) ==
        IF args.k # "ok" THEN args
        ELSE IF includes(selector, ":") /\ keywordParts(selector) # Len(argNodes)
        THEN Throw(args.st, "ArgumentError")
        ELSE sendMessage(Log(args.st, Event("send", e, 0, "ok", args.v,
                                            evaluatedFirst, selector)),
                         evaluatedFirst, selector, args.v.items, e)
  IN send(evalEach(st, argNodes, e, <<>>))

isSend(remainingNodes) ==
  /\ Len(remainingNodes) >= 1
  /\ remainingNodes[1].t = "str"
  /\ remainingNodes[1].s \notin {"cascade:", "=>:"}
  /\ (includes(remainingNodes[1].s, ":") \/ Len(remainingNodes) \in {1, 2})

evaluateArray(st, sonArray, e) ==
  LET first == sonArray[1]
      remainingNodes == Tail(sonArray)
      assign(assigned) ==
        IF assigned.k # "ok" THEN assigned
        ELSE Ok(Log(EnvSet(assigned.st, e, sliceLast(first.s), assigned.v),
                    Event("assign", e, 0, "ok", assigned.v, Undef,
                          sliceLast(first.s))),
                assigned.v)
      \* the sequence: the value of the last element
      sequence(evaluatedFirst, rest) ==
        IF rest.k # "ok" THEN rest
        ELSE Ok(rest.st, LastOf(rest.v.items, evaluatedFirst.v))
      apply(evaluatedFirst) ==
        IF evaluatedFirst.k # "ok" THEN evaluatedFirst
        ELSE IF isBlockDefinition(evaluatedFirst.v, remainingNodes)
        THEN createBlock(evaluatedFirst.st, evaluatedFirst.v.items,
                         remainingNodes[2], e)
        ELSE IF Len(remainingNodes) = 2 /\ remainingNodes[1] = Str("cascade:")
                /\ remainingNodes[2].t = "arr"
        THEN runCascade(evaluatedFirst.st, evaluatedFirst.v, remainingNodes[2].items,
                        e)
        ELSE IF isSend(remainingNodes)
        THEN evaluateSend(evaluatedFirst.st, evaluatedFirst.v, remainingNodes, e)
        ELSE sequence(evaluatedFirst,
                      evalEach(evaluatedFirst.st, remainingNodes, e, <<>>))
  IN IF first = Str("^") THEN evaluateReturn(st, sonArray, e)
     ELSE IF first = Str("define:args:body:") THEN evaluateDefine(st, sonArray, e)
     ELSE IF isAssignment(sonArray) THEN assign(evaluate(st, sonArray[2], e))
     ELSE apply(evaluate(st, first, e))

\* evaluate(node, env)
evaluate(st, node, e) ==
  CASE node.t \in {"num", "bool", "null"} -> Ok(st, node)
    [] node.t = "str" ->
         IF ~startsWith(node.s, "$") THEN Ok(st, node)
         ELSE IF substring1(node.s) = "" THEN Throw(st, "Error")
         ELSE IF substring1(node.s) = "env" THEN Ok(st, EnvRef(e))
         ELSE IF EnvGet(st.envs, e, substring1(node.s)).found
              THEN Ok(st, EnvGet(st.envs, e, substring1(node.s)).v)
              ELSE Throw(st, "VariableNotFoundError")
    [] node.t = "arr" ->
         IF node.items = <<>> THEN Ok(st, Null) ELSE evaluateArray(st, node.items, e)
    [] node.t \in {"obj", "env"} -> Ok(st, node)
    [] OTHER -> Throw(st, "Error")

-----------------------------------------------------------------------------
(* JSON.  A JSON text is the tree of its values, objects as "rec" nodes;   *)
(* JSON.parse builds the JavaScript objects in the heap.                   *)

\* a text JSON.parse rejects with a SyntaxError
BadJson == Val("bad", 0, "", 0, <<>>)

RecHas(rec, key) == \E i \in 1..Len(rec.items) : rec.items[i].s = key
RecGet(rec, key) ==
  IF rec.t = "rec" /\ RecHas(rec, key)
  THEN rec.items[CHOOSE i \in 1..Len(rec.items) : rec.items[i].s = key].items[1]
  ELSE Undef

\* TLC evaluates the argument of an operator where it is first used.  The
\* loops that build the heap evaluate what one step has built before they
\* take the next: Built(st) is TRUE, and evaluating it evaluates st.
Built(st) == Len(st.objs) >= 0

RECURSIVE Parse(_, _)
RECURSIVE ParseItems(_, _, _)
RECURSIVE ParseFields(_, _, _)

\* JSON.parse(text): [st, v], the objects of the text added to st.objs
Parse(st, node) ==
  CASE node.t = "arr" ->
         LET r == ParseItems(st, node.items, <<>>) IN [st |-> r.st, v |-> Arr(r.v)]
    [] node.t = "rec" ->
         LET r == ParseFields(st, node.items, EmptyMap)
         IN [st |-> [r.st EXCEPT !.objs = Append(@, r.v)],
             v |-> ObjRef(Len(r.st.objs) + 1)]
    [] OTHER -> [st |-> st, v |-> node]

ParseItems(st, nodes, acc) ==
  IF nodes = <<>> THEN [st |-> st, v |-> acc]
  ELSE LET r == Parse(st, Head(nodes))
       IN IF Built(r.st) THEN ParseItems(r.st, Tail(nodes), Append(acc, r.v))
          ELSE r

ParseFields(st, kvs, acc) ==
  IF kvs = <<>> THEN [st |-> st, v |-> acc]
  ELSE LET r == Parse(st, Head(kvs).items[1])
       IN IF Built(r.st) THEN ParseFields(r.st, Tail(kvs), Put(acc, Head(kvs).s, r.v))
          ELSE r

RECURSIVE StrItems(_)
StrItems(names) ==
  IF names = <<>> THEN <<>> ELSE <<Str(Head(names))>> \o StrItems(Tail(names))
StrArr(names) == Arr(StrItems(names))

-----------------------------------------------------------------------------
(* The server: db.ts, environmentHandlers.ts, persistenceHandlers.ts       *)

MethodData(argNames, body) ==
  Rec(<<KV("argNames", StrArr(argNames)), KV("body", body)>>)
ClassData(methods) == Rec(<<KV("methods", Rec(methods))>>)
\* the method data findMethodRecursively takes for a primitive: {primitive: tag}
PrimitiveData(tag) == Rec(<<KV("primitive", Str(tag))>>)

\* seedDatabase: baseEnvSeedData, each class with a part of its methods
baseEnvSeedData ==
  <<KV("Object", ClassData(<<
       KV("==", MethodData(<<"other">>,
                           StrArr(<<"primitive:Equals:", "$self", "$other">>))),
       KV("class", MethodData(<<>>, StrArr(<<"primitive:Class:", "$self">>)))>>)),
    KV("Number", ClassData(<<
       KV("+", MethodData(<<"aNumber">>,
                          StrArr(<<"primitive:NumberAdd:", "$self", "$aNumber">>))),
       KV("*", MethodData(<<"aNumber">>,
                          StrArr(<<"primitive:NumberMultiply:", "$self", "$aNumber">>))),
       KV("printString", MethodData(<<>>,
                                    StrArr(<<"primitive:NumberToString:", "$self">>)))>>)),
    KV("String", ClassData(<<KV("printString", MethodData(<<>>, Str("$self")))>>)),
    KV("Boolean", ClassData(<<
       KV("not", MethodData(<<>>, StrArr(<<"primitive:BooleanNot", "$self">>)))>>)),
    KV("BlockClosure", ClassData(<<>>)),
    KV("Symbol", ClassData(<<
       KV("printString", MethodData(<<>>,
                                    StrArr(<<"primitive:SymbolToString:", "$self">>)))>>)),
    KV("UndefinedObject", ClassData(<<
       KV("ifNotNil:", MethodData(<<"notNilBlock">>, Str("null")))>>)),
    KV("Transcript", ClassData(<<
       KV("show:", MethodData(<<"anObject">>, Arr(<<>>))),
       KV("cr", MethodData(<<>>, Arr(<<>>)))>>)),
    KV("JSBridge", Rec(<<
       KV("__isJSBridge", Bool(TRUE)),
       KV("methods", Rec(<<
          KV("log:", MethodData(<<"anObject">>, Null))>>))>>))>>

\* son_base_environment as an earlier run of the server left it (seedDatabase
\* skips a table that has rows): the seed, its Number class with + and *
\* marked as primitives
primitiveImageData ==
  [baseEnvSeedData EXCEPT ![2] =
     KV("Number", ClassData(<<
        KV("+", PrimitiveData("primitive:NumberAdd:")),
        KV("*", PrimitiveData("primitive:NumberMultiply:"))>>))]

\* son_base_environment with rows that are no class definitions: a number, an
\* object without `methods` and an object whose `methods` is null
plainImageData ==
  baseEnvSeedData \o
  <<KV("answer", Num(42)),
    KV("origin", Rec(<<KV("x", Num(0)), KV("tags", StrArr(<<"a">>))>>)),
    KV("draft", Rec(<<KV("methods", Null)>>))>>

BaseImages == {baseEnvSeedData, primitiveImageData, plainImageData}

\* createTables and seedDatabase: the three tables after initializeDatabase
initializeDatabase ==
  [son_base_environment |-> baseEnvSeedData,
   son_classes |-> {},
   son_methods |-> {}]

\* GET /api/base-environment: the rows of son_base_environment as one object
getBaseEnvironment(database) == Rec(database.son_base_environment)

\* typeof x !== 'string' || !x.trim()
BlankOrNoString(x) == x.t # "str" \/ trim(x.s) = ""

SavePayload(className, selector, arguments, body) ==
  [className |-> className, selector |-> selector, arguments |-> arguments,
   body |-> body]

\* the validation of saveMethod (lines 211-229): TRUE when the request is
\* answered 400
saveMethodRejects(data) ==
  \/ BlankOrNoString(data.className)
  \/ BlankOrNoString(data.selector)
  \/ data.arguments.t # "arr"
  \/ data.body.t # "arr"

\* randomUUID(): an id no row of the table has (rows are never deleted)
randomUUID(rows) == Cardinality(rows) + 1

insertMethodRow(methods, id, class_id, selector, arguments_json, body_json) ==
  methods \cup {[id |-> id, class_id |-> class_id, selector |-> selector,
                 arguments_json |-> arguments_json, body_json |-> body_json]}

\* INSERT INTO son_classes (id, name) ... ON CONFLICT(name) DO NOTHING
insertClassStmt(classes, id, name) ==
  IF \E row \in classes : row.name = name THEN classes
  ELSE classes \cup {[id |-> id, name |-> name]}

\* SELECT id FROM son_classes WHERE name = ?  (0 = no row)
selectClassIdStmt(classes, name) ==
  IF \E row \in classes : row.name = name
  THEN (CHOOSE row \in classes : row.name = name).id
  ELSE 0

\* SELECT id FROM son_methods WHERE class_id = ? AND selector = ?
checkExistingStmt(methods, class_id, selector) ==
  \E row \in methods : row.class_id = class_id /\ row.selector = selector

\* INSERT INTO son_methods ... ON CONFLICT(class_id, selector) DO UPDATE SET
\* arguments_json, body_json
upsertMethodStmt(methods, id, class_id, selector, arguments_json, body_json) ==
  IF checkExistingStmt(methods, class_id, selector)
  THEN {IF row.class_id = class_id /\ row.selector = selector
        THEN [row EXCEPT !.arguments_json = arguments_json,
                         !.body_json = body_json]
        ELSE row : row \in methods}
  ELSE methods \cup {[id |-> id, class_id |-> class_id, selector |-> selector,
                      arguments_json |-> arguments_json, body_json |-> body_json]}

\* POST /api/method: [db, status].  dbFails stands for a failure of the
\* database inside the transaction, which rolls it back.
saveMethod(database, data, dbFails) ==
  IF saveMethodRejects(data) THEN [db |-> database, status |-> 400]
  ELSE IF dbFails THEN [db |-> database, status |-> 500]
  ELSE
    LET classes == insertClassStmt(database.son_classes,
                                   randomUUID(database.son_classes),
                                   trim(data.className.s))
        classId == selectClassIdStmt(classes, trim(data.className.s))
        existingMethod == checkExistingStmt(database.son_methods, classId,
                                            trim(data.selector.s))
    IN [db |-> [database EXCEPT
                  !.son_classes = classes,
                  !.son_methods =
                     upsertMethodStmt(@, randomUUID(@), classId, trim(data.selector.s),
                                      data.arguments, data.body)],
        status |-> IF existingMethod THEN 200 ELSE 201]

-----------------------------------------------------------------------------
(* The image loader (SonEnvironmentContext.tsx)                            *)

\* lines 104-165: the bridge object, its entries real functions
jsBridgeObject(id) ==
  Put(Put(Put(Put(EmptyMap, "__isJSBridge", Bool(TRUE)),
              "log:", Fn("log:", id)),
          "setTimeout:delay:", Fn("setTimeout:delay:", id)),
      "fetch:options:", Fn("fetch:options:", id))

NoClassDefinition(value) == FALSE

\* lines 173-179: the heuristic for class definitions
isClassDefinition(value) ==
  value.t = "rec" /\ RecHas(value, "methods") /\ RecGet(value, "methods").t = "rec"

\* line 196: the method structures the loader accepts
ValidMethodData(methodData) ==
  methodData.t = "rec" /\ RecGet(methodData, "argNames").t = "arr"
  /\ RecGet(methodData, "body").t # "undef"

\* lines 194-202: one method of a class definition, into its environment
defineLoadedMethod(st, classEnv, selector, methodData) ==
  LET define(body) ==
        defineMethod(body.st, classEnv, selector,
                     MapString(RecGet(methodData, "argNames").items), body.v)
  IN IF ValidMethodData(methodData)
     THEN define(Parse(st, RecGet(methodData, "body")))
     ELSE st

\* lines 192-204: the loop over the methods, in the order of the keys
RECURSIVE defineMethods(_, _, _)
defineMethods(st, classEnv, methods) ==
  IF methods = <<>> THEN st
  ELSE LET rest(defined) ==
             IF Built(defined) THEN defineMethods(defined, classEnv, Tail(methods))
             ELSE defined
       IN rest(defineLoadedMethod(st, classEnv, Head(methods).s,
                                  Head(methods).items[1]))

\* lines 99-212: one key of the base data, merged into env
mergeKey(st, env, key, value) ==
  LET bridge == Len(st.objs) + 1
      classEnv == NewEnvId(st)
      set(parsed) == EnvSet(parsed.st, env, key, parsed.v)
  IN IF key = "JSBridge" /\ value.t = "rec"
        /\ RecGet(value, "__isJSBridge") = Bool(TRUE)
     THEN EnvSet([st EXCEPT !.objs = Append(@, jsBridgeObject(bridge))],
                 env, key, ObjRef(bridge))
     ELSE IF isClassDefinition(value)
     THEN EnvSet(defineMethods([st EXCEPT !.envs =
                                  Append(@, SonEnvironment(0, FALSE, Undef))],
                               classEnv, RecGet(value, "methods").items),
                 env, key, EnvRef(classEnv))
     ELSE set(Parse(st, value))

\* mergeBaseEnvironment(env, baseData): the loop over the keys, in order
RECURSIVE mergeBaseEnvironment(_, _, _)
mergeBaseEnvironment(st, env, baseData) ==
  IF baseData = <<>> THEN st
  ELSE LET rest(merged) ==
             IF Built(merged) THEN mergeBaseEnvironment(merged, env, Tail(baseData))
             ELSE merged
       IN rest(mergeKey(st, env, Head(baseData).s, Head(baseData).items[1]))

-----------------------------------------------------------------------------
(* The Workspace (Workspace.tsx)                                           *)

\* formatResult(value): the form the result is shown in, and the value shown
formatResult(objs, value) ==
  [form |-> CASE value.t = "undef" -> "undefined"
              [] value.t = "null" -> "null"
              [] isSonBlock(objs, value) -> "BlockClosure"
              [] value.t \in {"obj", "arr", "env"} -> "JSON"
              [] OTHER -> "String",
   value |-> value]

NoResult == [form |-> "", value |-> Undef]

\* the message setError is given: its prefix, and the class of what was thrown
ErrorMessage(prefix, thrown) == [prefix |-> prefix, thrown |-> thrown]
NoError == ErrorMessage("", "")

\* lines 467-477: the message for a thrown object of class k
ExecutionError(k) ==
  IF k = "SyntaxError" THEN ErrorMessage("JSON Syntax Error", k)
  ELSE IF IsSonError(k) THEN ErrorMessage("SON Runtime Error", k)
  ELSE ErrorMessage("JavaScript Error", k)

\* lines 439-450: the Transcript object of one execution
transcriptObject(id) ==
  Put(Put(EmptyMap, "show:", Fn("show:", id)), "cr", Fn("cr", id))

\* the interpreter's view of the client state
Machine == [envs |-> heap.envs, objs |-> heap.objs, timers |-> timers,
            console |-> hostLog, tr |-> <<>>]

\* lines 451-465: inject Transcript, parse the code, evaluate it
execute(st, code, env) ==
  LET transcript == Len(st.objs) + 1
      injected == EnvSet([st EXCEPT !.objs = Append(@, transcriptObject(transcript))],
                         env, "Transcript", ObjRef(transcript))
      run(parsedCode) == evaluate(parsedCode.st, parsedCode.v, env)
  IN IF code = BadJson THEN Throw(injected, "SyntaxError")
     ELSE run(Parse(injected, code))

\* Line 148 reads `LocalReturnError` in the catch clause of the callback.  The
\* module imports SonError alone from errors.ts (line 53) and declares no
\* such name, so the read throws a ReferenceError, for whatever was caught.
ReadReturnErrorClass(k) == "ReferenceError"

\* lines 128-153: the callback setTimeout runs: the statements of the body
\* in the captured scope itself; what they throw is caught and written to
\* the console, then the catch clause itself throws
runScheduledBlock(st, sonBlock) ==
  LET body == GetProp(st.objs, sonBlock, "body")
      scope == GetProp(st.objs, sonBlock, "lexicalScope").r
      started == Log(st, Event("timer", scope, 0, "ok", Undef, sonBlock, ""))
      report(st1, line) == [st1 EXCEPT !.console = Append(@, line)]
      ended(r) ==
        IF r.k = "ok"
        THEN Log(r.st, Event("callback", scope, 0, "ok", Undef, sonBlock, "ok"))
        ELSE Log(report(r.st, "Error during scheduled block execution:"),
                 Event("callback", scope, r.tgt, ReadReturnErrorClass(r.k), r.v,
                       sonBlock, r.k))
  IN IF body.t = "arr"
     THEN ended(evalEach(started, body.items, scope, <<>>))
     ELSE Log(report(started, "Scheduled block execution failed:"),
              Event("callback", scope, 0, "ok", Undef, sonBlock, "ok"))

-----------------------------------------------------------------------------
(* The programs executed and the requests sent                             *)

Send(receiver, selector, args) == Arr(<<receiver, Str(selector)>> \o args)
Assign(name, expr) == Arr(<<Str(name), expr>>)
Return(expr) == Arr(<<Str("^"), expr>>)
Define(selector, argNames, body) ==
  Arr(<<Str("define:args:body:"), Str(selector), StrArr(argNames), body>>)
\* a block whose argument list is the value of a property of an object
\* literal: [[{"a": [names]}, "a"], "=>:", body]
BlockOf(argNames, body) ==
  Arr(<<Send(Rec(<<KV("a", StrArr(argNames))>>), "a", <<>>), Str("=>:"), body>>)
SomeObject == Rec(<<KV("a", Num(1))>>)

\* [1, "+", [2, "*", 3]]
S1 == Send(Num(1), "+", <<Send(Num(2), "*", <<Num(3)>>)>>)
\* ["$Transcript", "show:", "hi"]
S3 == Send(Str("$Transcript"), "show:", <<Str("hi")>>)
\* ["^", ["x:", 5]]
TopLevelReturn == Return(Assign("x:", Num(5)))
\* [[], "=>:", [["y:", 1]]] and [["a"], "=>:", [["y:", 2]]]
BlockLiteral0 == Arr(<<Arr(<<>>), Str("=>:"), Arr(<<Assign("y:", Num(1))>>)>>)
BlockLiteral1 == Arr(<<StrArr(<<"a">>), Str("=>:"), Arr(<<Assign("y:", Num(2))>>)>>)
BlockFromArray == BlockOf(<<"v">>, Arr(<<Assign("y:", Num(3))>>))
\* ["BlockClosure:", "$Object"]: blocks get the class Object
UseObjectForBlocks == Assign("BlockClosure:", Str("$Object"))
ReturnOne == BlockOf(<<>>, Arr(<<Return(Num(1))>>))

\* m hands a block that returns 1 to n:, which sends it value; m then returns 2
ReturnThroughN ==
  Arr(<<UseObjectForBlocks,
        Define("n:", <<"b">>, Arr(<<Send(Str("$b"), "value", <<>>)>>)),
        Define("m", <<>>, Arr(<<Send(Str("$self"), "n:", <<ReturnOne>>),
                                Return(Num(2))>>)),
        Send(Str("$env"), "m", <<>>)>>)
\* h sends value to its own block
ReturnToHome ==
  Arr(<<UseObjectForBlocks,
        Define("h", <<>>, Arr(<<Send(ReturnOne, "value", <<>>), Return(Num(2))>>)),
        Send(Str("$env"), "h", <<>>)>>)
\* mk returns a block; the block is sent value after mk has returned
EscapingBlock ==
  Arr(<<UseObjectForBlocks,
        Define("mk", <<>>, Arr(<<Return(ReturnOne)>>)),
        Send(Send(Str("$env"), "mk", <<>>), "value", <<>>)>>)
\* B is a block of the top level that sends value to its argument; m hands
\* B a block that returns 1, then returns 2
ReturnThroughTopBlock ==
  Arr(<<UseObjectForBlocks,
        Assign("B:", BlockOf(<<"b">>, Arr(<<Send(Str("$b"), "value", <<>>)>>))),
        Define("m", <<>>, Arr(<<Send(Str("$B"), "value:", <<ReturnOne>>),
                                Return(Num(2))>>)),
        Send(Str("$env"), "m", <<>>)>>)
\* the block [a] => [["y:", "$a"], "$y"], sent value: 7 and sent value
OneArgBlock == BlockOf(<<"a">>, Arr(<<Assign("y:", Str("$a")), Str("$y")>>))
InvokeBlock == Send(OneArgBlock, "value:", <<Num(7)>>)
InvokeWrongArity == Send(OneArgBlock, "value", <<>>)
\* a block defined at top level runs ["^", ["x:", 6]]
TopLevelBlockReturn ==
  Arr(<<UseObjectForBlocks,
        Send(BlockOf(<<>>, Arr(<<Return(Assign("x:", Num(6)))>>)), "value", <<>>)>>)
\* methods with an empty body, a body that is no array, a body of one statement
ImplicitReturns ==
  Arr(<<Define("id", <<>>, Arr(<<>>)),
        Define("k", <<>>, Num(7)),
        Define("two", <<>>, Arr(<<Num(2)>>)),
        Send(Str("$env"), "id", <<>>),
        Send(Str("$env"), "k", <<>>),
        Send(Str("$env"), "two", <<>>)>>)
CallTwo == Send(Str("$env"), "two", <<>>)
UnknownSelector == Send(Num(3), "foo", <<>>)
ClassOfNumber == Send(Num(3), "class", <<>>)
ClassOfObject == Send(SomeObject, "class", <<>>)
ObjectUnknown == Send(SomeObject, "zork", <<>>)
ObjectGetter == Send(SomeObject, "a", <<>>)
ObjectSetter == Send(SomeObject, "b:", <<Num(5)>>)
BridgeLog == Send(Str("$JSBridge"), "log:", <<Str("hi")>>)
ScheduleBlock ==
  Send(Str("$JSBridge"), "setTimeout:delay:",
       <<BlockOf(<<>>, Arr(<<Assign("t:", Num(1))>>)), Num(0)>>)
\* a scheduled block whose body reads an unbound variable
ScheduleFailing ==
  Send(Str("$JSBridge"), "setTimeout:delay:",
       <<BlockOf(<<>>, Arr(<<Str("$nope")>>)), Num(0)>>)
\* the method m schedules two blocks of its own: one returns 1, the other
\* sends value to a block that returns 1
ScheduleReturns ==
  Arr(<<UseObjectForBlocks,
        Define("m", <<>>,
               Arr(<<Send(Str("$JSBridge"), "setTimeout:delay:", <<ReturnOne, Num(0)>>),
                     Send(Str("$JSBridge"), "setTimeout:delay:",
                          <<BlockOf(<<>>, Arr(<<Send(ReturnOne, "value", <<>>)>>)),
                            Num(0)>>)>>)),
        Send(Str("$env"), "m", <<>>)>>)
\* Number rebound to a class whose "+" is a primitive marker
PrimitiveNumber ==
  Arr(<<Assign("Number:",
               Rec(<<KV("methods",
                        Rec(<<KV("+", Rec(<<KV("primitive",
                                               Str("primitive:NumberAdd:"))>>))>>))>>)),
        Send(Num(1), "+", <<Num(2)>>)>>)
\* ["$JSBridge", "setTimeout:delay:", <block>, delay] and
\* ["$JSBridge", "setTimeout:delay:", 1, 0]
ScheduleAfter(delay) ==
  Send(Str("$JSBridge"), "setTimeout:delay:", <<BlockOf(<<>>, Arr(<<>>)), delay>>)
ScheduleNoBlock == Send(Str("$JSBridge"), "setTimeout:delay:", <<Num(1), Num(0)>>)
BadDelays == {Num(0 - 1), Half(1), Str("0")}
\* [["x:", 1], [[{"a": "$x"}, "a"], "+", 1]]: + sent to the string "$x", the
\* value of a property
DollarString ==
  Arr(<<Assign("x:", Num(1)),
        Send(Send(Rec(<<KV("a", Str("$x"))>>), "a", <<>>), "+", <<Num(1)>>)>>)
UnboundVariable == Str("$nope")
\* [["x:", 6], [[["$JSBridge", "log:", "r"], {"a": 1}], "cascade:",
\*               [["b:", 5], ["c:", "$x"]]]]: the receiver is the value of a
\* sequence that logs "r"
CascadeSetters ==
  Arr(<<Assign("x:", Num(6)),
        Arr(<<Arr(<<Send(Str("$JSBridge"), "log:", <<Str("r")>>), SomeObject>>),
              Str("cascade:"),
              Arr(<<Arr(<<Str("b:"), Num(5)>>), Arr(<<Str("c:"), Str("$x")>>)>>)>>)>>)
LogLine(line) == Send(Str("$JSBridge"), "log:", <<Str(line)>>)
\* [["$JSBridge", "log:", "0"], "setTimeout:delay:",
\*  [["$JSBridge", "log:", "1"], <block>], [["$JSBridge", "log:", "2"], 0]]
ArgumentOrder ==
  Send(LogLine("0"), "setTimeout:delay:",
       <<Arr(<<LogLine("1"), BlockOf(<<>>, Arr(<<>>))>>),
         Arr(<<LogLine("2"), Num(0)>>)>>)
\* a sequence whose second statement reads an unbound variable
SeqStops == Arr(<<LogLine("a"), Arr(<<Str("$nope")>>), LogLine("b")>>)
\* a method whose second statement returns
RetStops ==
  Arr(<<Define("r", <<>>, Arr(<<LogLine("a"), Return(Num(1)), LogLine("b")>>)),
        Send(Str("$env"), "r", <<>>)>>)
\* [{"a": 1}, "b:", 1, 2] and [{"a": 1}, "b::", 5]
KeywordMismatch == Send(SomeObject, "b:", <<Num(1), Num(2)>>)
DoubleColon == Send(SomeObject, "b::", <<Num(5)>>)
\* x is 1 at top level; the method sh binds x to 2 in its own context and
\* sends rd, which reads x; y gets the answer of sh, z that of rd
Shadow ==
  Arr(<<Assign("x:", Num(1)),
        Define("rd", <<>>, Arr(<<Return(Str("$x"))>>)),
        Define("sh", <<>>, Arr(<<Assign("x:", Num(2)),
                                 Return(Send(Str("$self"), "rd", <<>>))>>)),
        Assign("y:", Send(Str("$env"), "sh", <<>>)),
        Assign("z:", Send(Str("$env"), "rd", <<>>))>>)
\* f: is defined twice, with other argNames and another body, then sent
Redefine ==
  Arr(<<Define("f:", <<"a">>, Arr(<<Return(Num(1))>>)),
        Define("f:", <<"b">>, Arr(<<Return(Str("$b"))>>)),
        Send(Str("$env"), "f:", <<Num(7)>>)>>)
\* Symbol rebound to a class object whose methods are primitive markers,
\* then [{"#": name1}, selector, {"#": name2}]
SymbolClass ==
  Rec(<<KV("methods",
           Rec(<<KV("==", PrimitiveData("primitive:Equals:")),
                 KV("===", PrimitiveData("primitive:IdentityEquals:")),
                 KV("sameAs:", PrimitiveData("primitive:SymbolEquals:"))>>))>>)
CompareSymbols(selector, name1, name2) ==
  Arr(<<Assign("Symbol:", SymbolClass),
        Send(SymLit(name1), selector, <<SymLit(name2)>>)>>)
SymbolComparisons ==
  {<<"==", "a", "a">>, <<"===", "a", "a">>, <<"sameAs:", "a", "a">>,
   <<"sameAs:", "a", "b">>, <<"==", "a", "b">>}
\* [1, "+", 2]
OnePlusTwo == Send(Num(1), "+", <<Num(2)>>)

Programs ==
  {CompareSymbols(c[1], c[2], c[3]) : c \in SymbolComparisons} \cup
  {ScheduleAfter(delay) : delay \in BadDelays} \cup {ScheduleNoBlock} \cup
  {S1, S3, TopLevelReturn, BlockLiteral0, BlockLiteral1, BlockFromArray,
   ReturnThroughN, ReturnToHome, ReturnThroughTopBlock, InvokeBlock,
   InvokeWrongArity, DollarString, ScheduleFailing, ScheduleReturns, EscapingBlock, TopLevelBlockReturn,
   ImplicitReturns, CallTwo, UnknownSelector, ClassOfNumber, ClassOfObject,
   ObjectUnknown, ObjectGetter, ObjectSetter, BridgeLog, ScheduleBlock,
   PrimitiveNumber, UnboundVariable, BadJson, OnePlusTwo,
   CascadeSetters, ArgumentOrder, SeqStops, RetStops, KeywordMismatch,
   DoubleColon, Shadow, Redefine}

DoubleBody == Arr(<<Return(Send(Str("$self"), "+", <<Str("$self")>>))>>)

SavePayloads ==
  {SavePayload(Str("Number"), Str("double"), Arr(<<>>), DoubleBody),
   SavePayload(Str(" Point "), Str("x:"), StrArr(<<"v">>), Arr(<<>>)),
   SavePayload(Str("Number"), Str("double"), Arr(<<>>), Arr(<<>>)),
   SavePayload(Str(" "), Str("double"), Arr(<<>>), DoubleBody),
   SavePayload(Str("Number"), Str("double"), Str("x"), DoubleBody),
   SavePayload(Str("Number"), Str("double"), Arr(<<>>), Num(7)),
   SavePayload(Str("Number"), Str("double"), Arr(<<Num(1)>>), DoubleBody)}

NoSave == [data |-> SavePayload(Undef, Undef, Undef, Undef), status |-> 0,
           loaded |-> FALSE, existed |-> FALSE]

\* history: the store holds a method row for the class and selector of data
MethodRowExists(database, data) ==
  \E class \in database.son_classes, method \in database.son_methods :
    /\ class.name = trim(data.className.s)
    /\ method.class_id = class.id
    /\ method.selector = trim(data.selector.s)

-----------------------------------------------------------------------------
(* The state machine                                                       *)

\* initializeDatabase has run; the provider is mounted and its first load
\* is in flight (useState defaults and the mount effect)
Init ==
  /\ db = initializeDatabase
  /\ heap = [envs |-> <<>>, objs |-> <<>>]
  /\ environment = 0
  /\ isLoading = TRUE
  /\ inFlight = 1
  /\ envError = FALSE
  /\ result = NoResult
  /\ execError = NoError
  /\ consoleOutput = <<>>
  /\ timers = <<>>
  /\ hostLog = <<>>
  /\ lastSave = NoSave
  /\ trace = <<>>
  /\ lastCode = Undef
  /\ runs = 0

\* loadBaseEnvironment up to its await (reloadEnvironment)
ReloadEnvironment ==
  /\ runs < MaxRuns
  /\ isLoading' = TRUE
  /\ envError' = FALSE
  /\ environment' = 0
  /\ inFlight' = inFlight + 1
  /\ runs' = runs + 1
  /\ UNCHANGED <<db, heap, result, execError, consoleOutput, timers, hostLog,
                 lastSave, trace, lastCode>>

\* loadBaseEnvironment after its await: the server answered; a new root
\* environment with the base environment merged in
LoadSucceeds ==
  /\ inFlight > 0
  /\ \E st \in {mergeBaseEnvironment(
                  [Machine EXCEPT !.envs = Append(@, SonEnvironment(0, FALSE, Undef))],
                  Len(heap.envs) + 1, getBaseEnvironment(db).items)} :
       heap' = [envs |-> st.envs, objs |-> st.objs]
  /\ environment' = Len(heap.envs) + 1
  /\ isLoading' = FALSE
  /\ inFlight' = inFlight - 1
  /\ lastSave' = [lastSave EXCEPT !.loaded = lastSave.status \in {200, 201}]
  /\ UNCHANGED <<db, envError, result, execError, consoleOutput, timers, hostLog,
                 trace, lastCode, runs>>

\* loadBaseEnvironment after its await: the request failed
LoadFails ==
  /\ inFlight > 0
  /\ envError' = TRUE
  /\ environment' = 0
  /\ isLoading' = FALSE
  /\ inFlight' = inFlight - 1
  /\ UNCHANGED <<db, heap, result, execError, consoleOutput, timers, hostLog,
                 lastSave, trace, lastCode, runs>>

\* handleExecute with `code` in the editor
HandleExecute(code) ==
  /\ runs < MaxRuns
  /\ runs' = runs + 1
  /\ lastCode' = code
  /\ consoleOutput' = <<>>
  /\ IF isLoading \/ envError \/ environment = 0
     THEN /\ result' = NoResult
          /\ execError' = ErrorMessage("Execution failed", "")
          /\ trace' = <<>>
          /\ UNCHANGED <<heap, timers, hostLog>>
     ELSE \E r \in {execute(Machine, code, environment)} :
             /\ heap' = [envs |-> r.st.envs, objs |-> r.st.objs]
             /\ timers' = r.st.timers
             /\ hostLog' = r.st.console
             /\ trace' = r.st.tr
             /\ result' = IF r.k = "ok" THEN formatResult(r.st.objs, r.v) ELSE NoResult
             /\ execError' = IF r.k = "ok" THEN NoError ELSE ExecutionError(r.k)
  /\ UNCHANGED <<db, environment, isLoading, inFlight, envError, lastSave>>

\* POST /api/method with payload `data`
SaveMethod(data, dbFails) ==
  /\ runs < MaxRuns
  /\ runs' = runs + 1
  /\ \E response \in {saveMethod(db, data, dbFails)} :
       /\ db' = response.db
       /\ lastSave' = [data |-> data, status |-> response.status, loaded |-> FALSE,
                       existed |-> MethodRowExists(db, data)]
  /\ UNCHANGED <<heap, environment, isLoading, inFlight, envError, result, execError,
                 consoleOutput, timers, hostLog, trace, lastCode>>

\* the i-th scheduled callback runs
TimerFires(i) ==
  /\ i \in 1..Len(timers)
  /\ \E st \in {runScheduledBlock(
                  [Machine EXCEPT !.tr = trace,
                                  !.timers = SubSeq(timers, 1, i - 1)
                                             \o SubSeq(timers, i + 1, Len(timers))],
                  timers[i])} :
       /\ heap' = [envs |-> st.envs, objs |-> st.objs]
       /\ timers' = st.timers
       /\ hostLog' = st.console
       /\ trace' = st.tr
  /\ UNCHANGED <<db, environment, isLoading, inFlight, envError, result, execError,
                 consoleOutput, lastSave, lastCode, runs>>

Next ==
  \/ ReloadEnvironment
  \/ LoadSucceeds
  \/ LoadFails
  \/ \E code \in Programs : HandleExecute(code)
  \/ \E data \in SavePayloads, dbFails \in BOOLEAN : SaveMethod(data, dbFails)
  \/ \E i \in 1..2 : TimerFires(i)

Spec == Init /\ [][Next]_vars

\* the server started on a database that holds one of the images
InitImage ==
  /\ \E image \in BaseImages :
       db = [initializeDatabase EXCEPT !.son_base_environment = image]
  /\ heap = [envs |-> <<>>, objs |-> <<>>]
  /\ environment = 0
  /\ isLoading = TRUE
  /\ inFlight = 1
  /\ envError = FALSE
  /\ result = NoResult
  /\ execError = NoError
  /\ consoleOutput = <<>>
  /\ timers = <<>>
  /\ hostLog = <<>>
  /\ lastSave = NoSave
  /\ trace = <<>>
  /\ lastCode = Undef
  /\ runs = 0

SpecImage == InitImage /\ [][Next]_vars

-----------------------------------------------------------------------------
(* Properties                                                              *)

\* handleExecute evaluated `code` (the environment was ready)
Executed(code) == lastCode = code /\ execError.prefix # "Execution failed"

\* the environments on the parent chain of e, e included
RECURSIVE Ancestors(_, _)
Ancestors(envs, e) ==
  IF e = 0 THEN {} ELSE {e} \cup Ancestors(envs, envs[e].parent)

\* the events of one kind in the trace
EventsOf(kind) == {i \in DOMAIN trace : trace[i].e = kind}

\* the events of the evaluation handleExecute made, without those of the
\* callbacks that ran after it
Evaluated ==
  IF EventsOf("timer") = {} THEN trace
  ELSE SubSeq(trace, 1, (CHOOSE j \in EventsOf("timer") :
                           \A k \in EventsOf("timer") : j <= k) - 1)

\* C1: a NonLocalReturn raised by `^` inside a block is caught only by the
\* method activation whose environment is its target; every other method
\* activation on the way re-raises it.
ReturnCaughtOnlyByTarget ==
  \A i \in EventsOf("catch") :
    trace[i].k = "NonLocalReturnError" => trace[i].tgt = trace[i].env

\* C2: after a successful save of (className, selector, argNames, body), a
\* fresh image load yields a class for className whose method for selector
\* has the same argNames and body.
SavedMethodReappears ==
  (lastSave.loaded /\ environment # 0) =>
    \E class \in {EnvGet(heap.envs, environment, trim(lastSave.data.className.s))} :
      /\ class.found
      /\ class.v.t = "env"
      /\ \E method \in {lookupMethodLocally(heap.envs, class.v.r,
                                            trim(lastSave.data.selector.s))} :
           /\ method # Null
           /\ GetProp(heap.objs, method, "argNames") = lastSave.data.arguments
           /\ GetProp(heap.objs, method, "body") = lastSave.data.body

\* C3: a return signal that no method activation catches surfaces at the top
\* of the evaluation as a SonError; a LocalReturn or NonLocalReturn never
\* leaves the top-level evaluation.
UnmatchedReturnIsSonError == ~IsReturnSignal(execError.thrown)

\* C4: ["^", expr] evaluated in an environment that is no method context and
\* has none on its parent chain raises SonError, after expr was evaluated,
\* and raises neither LocalReturn nor NonLocalReturn.
ReturnOutsideMethodIsSonError ==
  /\ \A i \in EventsOf("ret") :
       (\A c \in Ancestors(heap.envs, trace[i].env) : ~heap.envs[c].isMC)
         => trace[i].k = "SonError"
  /\ Executed(TopLevelReturn) =>
       /\ execError = ErrorMessage("SON Runtime Error", "SonError")
       /\ \E i \in EventsOf("ret") : EnvGet(heap.envs, trace[i].env, "x").found

\* the top-level ["^", ["x:", 5]] has run: x is bound, a SonError was thrown
TopLevelReturnRan ==
  /\ Executed(TopLevelReturn)
  /\ environment # 0
  /\ EnvGet(heap.envs, environment, "x") = [found |-> TRUE, v |-> Num(5)]
  /\ \E i \in EventsOf("ret") :
       /\ trace[i].env = environment
       /\ trace[i].tgt = 0
       /\ trace[i].k = "SonError"

\* C5: a method activation whose body finishes without executing `^` answers
\* its receiver, whatever the value of the last statement of the body (array
\* body, empty body or body that is no array).
ImplicitSelfReturn ==
  /\ \A i \in EventsOf("exit") : trace[i].v = trace[i].w
  /\ (Executed(ImplicitReturns) /\ execError = NoError) =>
       \E i \in EventsOf("exit") : trace[i].s = "two" /\ result.value = trace[i].w

\* the three methods of ImplicitReturns ran to their ends, on the root
\* environment as receiver
ImplicitReturnsRan ==
  /\ Executed(ImplicitReturns)
  /\ environment # 0
  /\ result.value = EnvRef(environment)
  /\ \A s \in {"id", "k", "two"} :
       \E i \in EventsOf("exit") :
         trace[i].s = s /\ trace[i].w = EnvRef(environment) /\ trace[i].v = trace[i].w

\* the classes the loader binds for the values of the language
ValueClasses ==
  {"Number", "String", "Boolean", "Symbol", "BlockClosure", "UndefinedObject"}

\* what the lookup of targetSelector is to return for a class whose own
\* method is `own` and for which Object holds `inherited` (Null = absent)
FoundAs(lookupResult, own, inherited) ==
  /\ lookupResult.k = "ok"
  /\ IF own # Null
     THEN lookupResult.kind = "impl"
          /\ lookupResult.body = GetProp(heap.objs, own, "body")
     ELSE IF inherited # Null
     THEN lookupResult.kind = "impl"
          /\ lookupResult.body = GetProp(heap.objs, inherited, "body")
     ELSE lookupResult.kind = "none"

\* C6: the lookup of selector s for class C returns C's own implementation
\* when present, else Object's when present, else none, and completes
\* without raising an error for every class bound in the environment.
LookupFallsBackToObject ==
  environment # 0 =>
    \A name \in ValueClasses, s \in {"class", "printString", "zork"} :
      \E class \in {EnvGet(heap.envs, environment, name)},
         object \in {EnvGet(heap.envs, environment, "Object")} :
        (class.found /\ class.v.t = "env" /\ object.found /\ object.v.t = "env") =>
          FoundAs(findMethodRecursively(Machine, environment, class.v, s),
                  lookupMethodLocally(heap.envs, class.v.r, s),
                  lookupMethodLocally(heap.envs, object.v.r, s))

\* C7: a send that finds no bridge entry, no primitive and no SON method, to
\* a receiver that is no block, raises MessageNotUnderstood; it returns no
\* value and modifies nothing.
UnknownSendNotUnderstood ==
  \A i \in EventsOf("fallback") :
    trace[i].k = "MessageNotUnderstoodError" /\ trace[i].tgt = 0

\* C8: scenario S3, ["$Transcript", "show:", "hi"], appends the line "hi" to
\* the host transcript and answers the Transcript object itself.
TranscriptShowsHi ==
  Executed(S3) =>
    /\ execError = NoError
    /\ consoleOutput = <<"hi">>
    /\ result.value.t = "obj"
    /\ GetProp(heap.objs, result.value, "show:").t = "fn"

\* C9: scenario S1, [1, "+", [2, "*", 3]], evaluated in a root environment
\* loaded from the seeded base environment, yields 7.
S1YieldsSeven ==
  Executed(S1) => execError = NoError /\ result.value = Num(7)

\* the block a block literal is to yield, for an evaluation at top level
IsBlockOf(value, literal) ==
  /\ isSonBlock(heap.objs, value)
  /\ GetProp(heap.objs, value, "argNames") = literal.items[1]
  /\ GetProp(heap.objs, value, "body") = literal.items[3]
  /\ GetProp(heap.objs, value, "lexicalScope").t = "env"
  /\ GetProp(heap.objs, value, "homeContext") = Null

\* C10: the block literal [[n1, ..., nk], "=>:", body] yields a Block with
\* argNames n1..nk, the unevaluated body, the environment as lexicalScope
\* and the nearest method context as homeContext (null when there is none);
\* the body is not evaluated when the block is created.
BlockLiteralYieldsBlock ==
  \A literal \in {BlockLiteral0, BlockLiteral1} :
    Executed(literal) =>
      /\ execError = NoError
      /\ IsBlockOf(result.value, literal)
      /\ \A e \in DOMAIN heap.envs : "y" \notin DOMAIN heap.envs[e].vars

\* the class bound to `name` in the root environment is the one the loader
\* made, and the image marks its `selector` with the primitive `tag`
LoadedWithPrimitive(name, selector, tag) ==
  /\ environment # 0
  /\ EnvGet(heap.envs, environment, name).v.t = "env"
  /\ RecGet(RecGet(RecGet(getBaseEnvironment(db), name), "methods"), selector)
       = PrimitiveData(tag)

\* C11: a method entry {primitive: tag} is dispatched to the primitive:
\* [1, "+", 2] answers 3 when + of Number is marked primitive:NumberAdd:,
\* both for a Number class object consulted directly (PrimitiveNumber) and
\* for the Number class the loader made from the base-environment data.
PrimitiveTagDispatched ==
  /\ Executed(PrimitiveNumber) => execError = NoError /\ result.value = Num(3)
  /\ (Executed(OnePlusTwo)
      /\ LoadedWithPrimitive("Number", "+", "primitive:NumberAdd:"))
     => execError = NoError /\ result.value = Num(3)

\* the events of one kind, in the order they happened
RECURSIVE Select(_, _)
Select(events, kind) ==
  IF events = <<>> THEN <<>>
  ELSE IF Head(events).e = kind THEN <<Head(events)>> \o Select(Tail(events), kind)
  ELSE Select(Tail(events), kind)

\* C12: a cascade evaluates its receiver once, sends its messages in order
\* to that one value with the arguments evaluated in the current
\* environment, and answers the receiver: CascadeSetters logs "r" once, then
\* sends b: 5 and c: 6 to the object, which is the result and holds both.
CascadeAnswersReceiver ==
  Executed(CascadeSetters) =>
    \E sends \in {Select(Evaluated, "send")} :
      /\ execError = NoError
      /\ result.value.t = "obj"
      /\ Len(sends) = 3
      /\ sends[1].s = "log:" /\ sends[1].v = Arr(<<Str("r")>>)
      /\ \A i \in {2, 3} : sends[i].tgt = 1 /\ sends[i].w = result.value
                             /\ sends[i].env = sends[1].env
      /\ sends[2].s = "b:" /\ sends[2].v = Arr(<<Num(5)>>)
      /\ sends[3].s = "c:" /\ sends[3].v = Arr(<<Num(6)>>)
      /\ GetProp(heap.objs, result.value, "a") = Num(1)
      /\ GetProp(heap.objs, result.value, "b") = Num(5)
      /\ GetProp(heap.objs, result.value, "c") = Num(6)

CascadeSettersRan ==
  /\ Executed(CascadeSetters)
  /\ execError = NoError
  /\ Len(Select(Evaluated, "send")) = 3
  /\ GetProp(heap.objs, result.value, "c") = Num(6)

\* the selectors and the first arguments of the sends of the trace, in order
Selectors(events) == [i \in 1..Len(events) |-> events[i].s]
FirstArgs(events) ==
  [i \in 1..Len(events) |-> IF events[i].v.items = <<>> THEN Undef
                            ELSE events[i].v.items[1]]

\* C13: the receiver of a send is evaluated first, then the arguments from
\* left to right, each once, and the message is dispatched after them
\* (ArgumentOrder: the lines 0, 1, 2 are logged in this order, then
\* setTimeout:delay: is sent); the statements of a sequence run from left to
\* right and none runs after one that raised an error (SeqStops) or a return
\* signal (RetStops).
EvaluationOrder ==
  /\ Executed(ArgumentOrder) =>
       \E sends \in {Select(Evaluated, "send")} :
         /\ execError = NoError
         /\ Selectors(sends) = <<"log:", "log:", "a", "log:", "setTimeout:delay:">>
         /\ <<FirstArgs(sends)[1], FirstArgs(sends)[2], FirstArgs(sends)[4]>>
              = <<Str("0"), Str("1"), Str("2")>>
         /\ sends[5].w = sends[1].w /\ isJsBridge(heap.objs, sends[5].w)
         /\ isSonBlock(heap.objs, sends[5].v.items[1])
         /\ sends[5].v.items[2] = Num(0)
  /\ Executed(SeqStops) =>
       \E sends \in {Select(Evaluated, "send")} :
         /\ execError = ErrorMessage("SON Runtime Error", "VariableNotFoundError")
         /\ Selectors(sends) = <<"log:">> /\ FirstArgs(sends) = <<Str("a")>>
  /\ Executed(RetStops) =>
       \E sends \in {Select(Evaluated, "send")} :
         /\ execError = NoError /\ result.value = Num(1)
         /\ Selectors(sends) = <<"r", "log:">> /\ FirstArgs(sends)[2] = Str("a")

ArgumentOrderRan ==
  /\ Executed(ArgumentOrder)
  /\ execError = NoError
  /\ Len(hostLog) >= 3
  /\ SubSeq(hostLog, Len(hostLog) - 2, Len(hostLog)) = <<"0", "1", "2">>
  /\ Len(Select(Evaluated, "send")) = 5

\* C14: a send whose selector contains ':' is dispatched only with as many
\* arguments as the selector has ':' characters; with any other number the
\* evaluation raises ArgumentError ([{"a": 1}, "b:", 1, 2] and
\* [{"a": 1}, "b::", 5]).
KeywordArityExact ==
  /\ \A i \in EventsOf("send") :
       (trace[i].tgt = 0 /\ includes(trace[i].s, ":"))
       => Len(trace[i].v.items) = splitCount(trace[i].s)
  /\ \A code \in {KeywordMismatch, DoubleColon} :
       Executed(code) => execError = ErrorMessage("SON Runtime Error", "ArgumentError")

\* the environments on the chain of e that bind name
Binders(envs, e, name) == {c \in Ancestors(envs, e) : name \in DOMAIN envs[c].vars}

Names == {"x", "y", "self", "nope"}

\* C15: get(name) answers the binding of the nearest environment of the
\* chain that binds name and fails with VariableNotFound when none does;
\* after set(x, v) in E, get(x) from E and from every descendant of E with no
\* binding of x in between answers v.
LexicalLookup ==
  /\ \A e \in DOMAIN heap.envs, name \in Names :
       \E B \in {Binders(heap.envs, e, name)}, got \in {EnvGet(heap.envs, e, name)} :
         IF B = {} THEN ~got.found
         ELSE /\ got.found
              /\ \E c \in B : /\ \A b \in B : b \in Ancestors(heap.envs, c)
                               /\ got.v = heap.envs[c].vars[name]
  /\ \A E \in DOMAIN heap.envs :
       \E after \in {EnvSet([envs |-> heap.envs], E, "x", Num(9)).envs} :
         \A d \in DOMAIN heap.envs :
           (E \in Ancestors(heap.envs, d)
            /\ Binders(heap.envs, d, "x") \subseteq Ancestors(heap.envs, E))
           => EnvGet(after, d, "x") = [found |-> TRUE, v |-> Num(9)]
  /\ Executed(UnboundVariable)
       => execError = ErrorMessage("SON Runtime Error", "VariableNotFoundError")
  /\ Executed(Shadow) =>
       /\ execError = NoError /\ result.value = Num(1)
       /\ \E i \in EventsOf("assign") :
            trace[i].s = "y" /\ trace[i].v = Num(2)
            /\ EnvGet(heap.envs, trace[i].env, "z") = [found |-> TRUE, v |-> Num(1)]

\* Shadow ran: a method context binds x to 2 below the top level, where x is 1
ShadowRan ==
  /\ Executed(Shadow)
  /\ \E e \in DOMAIN heap.envs :
       /\ heap.envs[e].parent # 0
       /\ EnvGet(heap.envs, e, "x") = [found |-> TRUE, v |-> Num(2)]
       /\ EnvGet(heap.envs, heap.envs[e].parent, "x") = [found |-> TRUE, v |-> Num(1)]
       /\ \E d \in DOMAIN heap.envs :
            heap.envs[d].parent = e /\ "x" \notin DOMAIN heap.envs[d].vars

\* C16: an assignment ["x:", expr] in E binds x in E only: no other
\* environment changes, an ancestor's binding of x included, and the
\* assignment answers the value assigned.
AssignmentIsLocal ==
  /\ \A E \in DOMAIN heap.envs :
       \E after \in {EnvSet([envs |-> heap.envs], E, "x", Num(9)).envs} :
         /\ after[E] = [heap.envs[E] EXCEPT !.vars = Put(@, "x", Num(9))]
         /\ \A c \in DOMAIN heap.envs \ {E} : after[c] = heap.envs[c]
  /\ \A i \in EventsOf("assign") : trace[i].s \in DOMAIN heap.envs[trace[i].env].vars
  /\ Executed(Shadow) =>
       \E assigns \in {Select(trace, "assign")} :
         /\ execError = NoError
         /\ Len(assigns) >= 4
         /\ SubSeq(Selectors(assigns), 1, 4) = <<"x", "x", "y", "z">>
         /\ assigns[1].env \in Ancestors(heap.envs, assigns[2].env) \ {assigns[2].env}
         /\ heap.envs[assigns[1].env].vars["x"] = Num(1)
         /\ heap.envs[assigns[2].env].vars["x"] = Num(2)
         /\ assigns[4].v = result.value
         /\ heap.envs[assigns[4].env].vars["z"] = result.value

ShadowAssigned ==
  /\ Executed(Shadow)
  /\ \E i, j \in EventsOf("assign") :
       /\ trace[i].s = "x" /\ trace[j].s = "x"
       /\ trace[i].env = heap.envs[trace[j].env].parent
       /\ heap.envs[trace[i].env].vars["x"] = Num(1)
       /\ heap.envs[trace[j].env].vars["x"] = Num(2)

\* C17: after ["define:args:body:", sel, argNames, body] in E, the method
\* table of E holds for sel an implementation with these argNames and this
\* body, an earlier definition of sel replaced; the form answers the symbol
\* named sel; a later send of sel to a receiver whose class is E runs the
\* body (Redefine: the second f: answers its argument, 7).
DefineInstallsMethod ==
  /\ \A i \in EventsOf("define") :
       /\ isSonSymbol(heap.objs, trace[i].v)
       /\ GetProp(heap.objs, trace[i].v, "#") = Str(trace[i].s)
       /\ (\A j \in EventsOf("define") :
             (trace[j].env = trace[i].env /\ trace[j].s = trace[i].s) => j <= i)
          => \E method \in {lookupMethodLocally(heap.envs, trace[i].env, trace[i].s)} :
               /\ method # Null
               /\ GetProp(heap.objs, method, "argNames") = trace[i].w.items[1]
               /\ GetProp(heap.objs, method, "body") = trace[i].w.items[2]
  /\ Executed(Redefine) =>
       /\ execError = NoError /\ result.value = Num(7)
       /\ \E i \in EventsOf("define"), j \in EventsOf("catch") :
            /\ i < j /\ trace[j].s = "f:" /\ trace[j].v = Num(7)
            /\ trace[j].w = EnvRef(trace[i].env)
            /\ EnvGet(heap.envs, trace[j].env, "b") = [found |-> TRUE, v |-> Num(7)]

RedefineRan ==
  /\ Executed(Redefine)
  /\ Len(Select(trace, "define")) = 2
  /\ \E i \in EventsOf("define") :
       GetProp(heap.objs, lookupMethodLocally(heap.envs, trace[i].env, "f:"),
               "argNames") = StrArr(<<"b">>)
  /\ result.value = Num(7)

\* C18: the comparisons of symbols answer true for two symbols of the same
\* name, two evaluations of a symbol literal included, and false for
\* different names: Object's == (primitive:Equals:), === (primitive:
\* IdentityEquals:) and primitive:SymbolEquals:.
SymbolsEqualByName ==
  \A c \in SymbolComparisons :
    Executed(CompareSymbols(c[1], c[2], c[3]))
    => execError = NoError /\ result.value = Bool(c[2] = c[3])

\* C19: the saves keep one class row for a class name and one method row
\* for a class and selector; after a save answered 200 or 201 the class has
\* a row and the method row carries the arguments and the body of that
\* save; the answer is 201 when no row for the class and selector existed
\* before the save and 200 when one did.
MethodSaveUpserts ==
  /\ \A c1, c2 \in db.son_classes : (c1.name = c2.name \/ c1.id = c2.id) => c1 = c2
  /\ \A m1, m2 \in db.son_methods :
       ((m1.class_id = m2.class_id /\ m1.selector = m2.selector) \/ m1.id = m2.id)
       => m1 = m2
  /\ \A m \in db.son_methods : \E c \in db.son_classes : c.id = m.class_id
  /\ lastSave.status \in {200, 201} =>
       /\ lastSave.status = 201 <=> ~lastSave.existed
       /\ \E c \in db.son_classes, m \in db.son_methods :
            /\ c.name = trim(lastSave.data.className.s)
            /\ m.class_id = c.id
            /\ m.selector = trim(lastSave.data.selector.s)
            /\ m.arguments_json = lastSave.data.arguments
            /\ m.body_json = lastSave.data.body

\* a save replaced the row an earlier save had made
MethodSavedTwice ==
  /\ lastSave.status = 200
  /\ lastSave.existed
  /\ lastSave.data.body = Arr(<<>>)
  /\ Cardinality(db.son_methods) = 1
  /\ \A m \in db.son_methods : m.body_json = Arr(<<>>) /\ m.selector = "double"

\* a non-empty string; a sequence of strings
NonEmptyString(x) == x.t = "str" /\ x.s # ""
SequenceOfStrings(x) == x.t = "arr" /\ AllStrings(x.items)

\* C20: a save request is answered 400 exactly when its className or its
\* selector is not a non-empty string or its arguments are not a sequence
\* of strings; no body is a reason to reject.
SaveRejectsExactlyInvalid ==
  lastSave.status \in {200, 201, 400} =>
    (lastSave.status = 400
     <=> \/ ~NonEmptyString(lastSave.data.className)
         \/ ~NonEmptyString(lastSave.data.selector)
         \/ ~SequenceOfStrings(lastSave.data.arguments))

\* a heap value has the content of a JSON text: the same keys and elements,
\* down to the leaves
RECURSIVE SameAs(_, _, _)
SameAs(objs, v, node) ==
  CASE node.t = "rec" ->
         /\ v.t = "obj"
         /\ DOMAIN Props(objs, v) = {node.items[i].s : i \in DOMAIN node.items}
         /\ \A i \in DOMAIN node.items :
              SameAs(objs, GetProp(objs, v, node.items[i].s), node.items[i].items[1])
    [] node.t = "arr" ->
         /\ v.t = "arr"
         /\ Len(v.items) = Len(node.items)
         /\ \A i \in DOMAIN node.items : SameAs(objs, v.items[i], node.items[i])
    [] OTHER -> v = node

\* the shapes of the image loader's rules, read off the data
IsBridgeRow(row) ==
  row.s = "JSBridge" /\ row.items[1].t = "rec"
  /\ RecGet(row.items[1], "__isJSBridge") = Bool(TRUE)
IsClassRow(row) ==
  ~IsBridgeRow(row) /\ row.items[1].t = "rec"
  /\ RecGet(row.items[1], "methods").t = "rec"
IsMethodEntry(entry) ==
  entry.items[1].t = "rec" /\ RecHas(entry.items[1], "argNames")
  /\ RecHas(entry.items[1], "body")
MethodEntries(row) ==
  {i \in DOMAIN RecGet(row.items[1], "methods").items :
     IsMethodEntry(RecGet(row.items[1], "methods").items[i])}

\* the root environment binds one row of the base environment as the image
\* loader is to bind it
RowBound(row) ==
  \E bound \in {GetLocalOnly(heap.envs, environment, row.s)} :
    /\ bound.found
    /\ IF IsBridgeRow(row)
       THEN /\ isJsBridge(heap.objs, bound.v)
            /\ \A s \in {"log:", "setTimeout:delay:", "fetch:options:"} :
                 GetProp(heap.objs, bound.v, s).t = "fn"
       ELSE IF IsClassRow(row)
       THEN /\ bound.v.t = "env"
            /\ bound.v.r # environment
            /\ heap.envs[bound.v.r].parent = 0
            /\ heap.envs[bound.v.r].vars = EmptyMap
            /\ \E entries \in {RecGet(row.items[1], "methods").items} :
                 /\ DOMAIN heap.envs[bound.v.r].methods
                      = {entries[i].s : i \in MethodEntries(row)}
                 /\ \A i \in MethodEntries(row) :
                      \E method \in {lookupMethodLocally(heap.envs, bound.v.r,
                                                          entries[i].s)} :
                        /\ GetProp(heap.objs, method, "argNames")
                             = RecGet(entries[i].items[1], "argNames")
                        /\ SameAs(heap.objs, GetProp(heap.objs, method, "body"),
                                  RecGet(entries[i].items[1], "body"))
       ELSE SameAs(heap.objs, bound.v, row.items[1])

\* the environments the root binds to the class rows
ClassEnvs ==
  {GetLocalOnly(heap.envs, environment, db.son_base_environment[i].s).v.r :
     i \in {j \in DOMAIN db.son_base_environment :
              IsClassRow(db.son_base_environment[j])}}

ImageBound ==
  /\ environment # 0
  /\ heap.envs[environment].parent = 0
  /\ DOMAIN heap.envs[environment].vars
       = {db.son_base_environment[i].s : i \in DOMAIN db.son_base_environment}
  /\ \A i \in DOMAIN db.son_base_environment : RowBound(db.son_base_environment[i])
  /\ Cardinality(ClassEnvs)
       = Cardinality({j \in DOMAIN db.son_base_environment :
                        IsClassRow(db.son_base_environment[j])})

NonNegativeInteger(x) == x.t = "num" /\ x.s = "" /\ x.n >= 0

\* what the claim has a send of setTimeout:delay: with `args` to `bridge` do,
\* given its outcome k, its value v and the number of callbacks scheduled
TimeoutSendAsClaimed(objs, bridge, args, k, v, scheduled) ==
  IF Len(args) = 2 /\ isSonBlock(objs, args[1]) /\ NonNegativeInteger(args[2])
  THEN k = "ok" /\ v = bridge /\ scheduled = 1
  ELSE k = "SonError" /\ scheduled = 0

\* C22: a send of setTimeout:delay: to the bridge whose first argument is
\* no block or whose delay is no non-negative integer raises SonError and
\* schedules nothing; any other schedules exactly one callback, for that
\* block, and answers the bridge; whatever a host function of the bridge
\* throws reaches the program as SonError.
TimeoutSendChecked ==
  /\ \A i \in EventsOf("bridge") :
       /\ trace[i].k \in {"ok", "SonError"}
       /\ trace[i].s = "setTimeout:delay:" =>
            TimeoutSendAsClaimed(heap.objs, trace[i].w.items[1],
                                 Tail(trace[i].w.items), trace[i].k, trace[i].v,
                                 trace[i].tgt)
  /\ \A code \in {ScheduleAfter(delay) : delay \in BadDelays} \cup {ScheduleNoBlock} :
       Executed(code) => execError = ErrorMessage("SON Runtime Error", "SonError")
  /\ Executed(ScheduleBlock) =>
       /\ execError = NoError
       /\ isJsBridge(heap.objs, result.value)
  /\ (environment # 0 /\ EnvGet(heap.envs, environment, "JSBridge").found) =>
       \A first \in {ObjRef(o) : o \in DOMAIN heap.objs} \cup {Null},
          delay \in BadDelays \cup {Num(0), Num(5)} :
         \E bridge \in {EnvGet(heap.envs, environment, "JSBridge").v} :
           \E r \in {sendMessage(Machine, bridge, "setTimeout:delay:",
                                  <<first, delay>>, environment)} :
             /\ TimeoutSendAsClaimed(heap.objs, bridge, <<first, delay>>, r.k, r.v,
                                     Len(r.st.timers) - Len(timers))
             /\ r.k = "ok" => r.st.timers = Append(timers, first)
             /\ r.st.envs = heap.envs /\ r.st.objs = heap.objs

\* a block was scheduled and the sends with a bad delay or no block threw
TimeoutSendsRan ==
  /\ Executed(ScheduleAfter(Half(1)))
  /\ execError = ErrorMessage("SON Runtime Error", "SonError")
  /\ Len(timers) = 1
  /\ isSonBlock(heap.objs, timers[1])
  /\ \E i \in EventsOf("bridge") :
       /\ trace[i].s = "setTimeout:delay:" /\ trace[i].k = "SonError"
       /\ trace[i].tgt = 0
       /\ isSonBlock(heap.objs, trace[i].w.items[2])

\* the method activation e has not ended before event i of the trace
LiveAt(e, i) ==
  \A j \in 1..(i - 1) : ~(trace[j].e \in {"exit", "catch"} /\ trace[j].env = e)

\* C23: a NonLocalReturn towards a live method activation that leaves the
\* invocation of a block whose homeContext is null or another activation
\* leaves it as NonLocalReturn with the same value and the same target, and
\* never as a SonError or another error.
BlockFramePassesReturn ==
  \A i \in EventsOf("unwind") :
    (/\ trace[i].s = "NonLocalReturnError"
     /\ GetProp(heap.objs, trace[i].w, "homeContext") # EnvRef(trace[i].tgt)
     /\ LiveAt(trace[i].tgt, i))
    => /\ trace[i].k = "NonLocalReturnError"
       /\ trace[i].v.items[2] = trace[i].v.items[1]
       /\ trace[i].v.items[3] = Num(trace[i].tgt)

\* C24: a value-family send to a block with as many arguments as the block
\* has argNames runs the body in a new child of the block's lexicalScope,
\* the arguments bound by name, and answers the value of the last statement
\* (InvokeBlock answers 7, y bound to 7 in a child of that scope); with another
\* number of arguments it raises ArgumentError and no statement of the body
\* runs (InvokeWrongArity).
BlockInvocation ==
  /\ Executed(InvokeBlock) =>
       /\ execError = NoError
       /\ result.value = Num(7)
       /\ \E i \in EventsOf("assign") :
            /\ trace[i].s = "y" /\ trace[i].v = Num(7)
            /\ \E j \in EventsOf("send") :
                 /\ trace[j].s = "value:"
                 /\ heap.envs[trace[i].env].parent
                      = GetProp(heap.objs, trace[j].w, "lexicalScope").r
            /\ GetLocalOnly(heap.envs, trace[i].env, "a") = [found |-> TRUE, v |-> Num(7)]
  /\ Executed(InvokeWrongArity) =>
       /\ execError = ErrorMessage("SON Runtime Error", "ArgumentError")
       /\ EventsOf("assign") = {}

\* the class name of the resolver's table, by the shape of the value
ShapeClass(objs, value) ==
  CASE value.t = "null" -> "UndefinedObject"
    [] value.t = "num" -> "Number"
    [] value.t = "str" -> "String"
    [] value.t = "bool" -> "Boolean"
    [] value.t = "obj" /\ HasProp(objs, value, "#") -> "Symbol"
    [] value.t = "obj" /\ GetProp(objs, value, "__type") = Str("SonBlock") ->
         "BlockClosure"
    [] OTHER -> "Object"

\* the values the resolver is asked about: of every shape, the strings with
\* and without a leading '$'
ResolvedValues ==
  {Null, Num(0), Num(3), Half(1), Bool(TRUE), Bool(FALSE), Arr(<<>>),
   Str(""), Str("abc"), Str("$"), Str("$nope"), Str("$Number"), Str("$env")}
  \cup {ObjRef(o) : o \in {p \in DOMAIN heap.objs : ~isJsBridge(heap.objs, ObjRef(p))}}
  \cup {EnvRef(e) : e \in DOMAIN heap.envs}

\* the outcome r of the resolver for value, looked up from e, is the one of
\* the table
ResolvedByShape(value, e, r) ==
  IF value.t = "env" THEN r.k = "ok" /\ r.v = value
  ELSE \E named \in {EnvGet(heap.envs, e, ShapeClass(heap.objs, value))},
          object \in {EnvGet(heap.envs, e, "Object")} :
         IF named.found THEN r.k = "ok" /\ r.v = named.v
         ELSE IF object.found THEN r.k = "ok" /\ r.v = object.v
         ELSE r.k # "ok"

\* C25: the resolver answers by the shape of the value alone: null gives
\* UndefinedObject, a number Number, a string String whatever its
\* characters, a boolean Boolean, a symbol Symbol, a block BlockClosure, an
\* environment itself, another object Object, the name looked up on the
\* chain of the given environment; Object's table when the name is unbound;
\* a failure when Object is unbound too.  + sent to the string "$x" is not
\* answered by the + of Number (DollarString).
ClassResolvedByShape ==
  /\ \A e \in DOMAIN heap.envs, value \in ResolvedValues :
       ResolvedByShape(value, e, getClassOf(Machine, value, e))
  /\ Executed(DollarString) =>
       /\ execError # NoError
       /\ \A i \in EventsOf("exit") : ~(trace[i].s = "+" /\ trace[i].w.t = "str")

\* the event at which the callback that ended at event i began
StartOf(i) ==
  CHOOSE j \in EventsOf("timer") :
    j < i /\ \A k \in EventsOf("timer") : k < i => k <= j

\* the callbacks the evaluation that made the trace has scheduled
Scheduled == {i \in EventsOf("bridge") : trace[i].tgt = 1}

\* what a callback that ended at event i is to have done
CallbackContained(i) ==
  /\ trace[i].k = "ok"
  /\ trace[i].s # "ok" =>
       \E n \in DOMAIN hostLog : hostLog[n] = "Error during scheduled block execution:"
  /\ IsReturnSignal(trace[i].s) =>
       \A j \in EventsOf("catch") :
         j > StartOf(i) => trace[j].env \notin {trace[i].tgt, trace[i].env}

\* C26: a scheduled block whose body raises a LocalReturn, a NonLocalReturn
\* or an error has the signal caught inside its callback and reported to
\* the host log: nothing leaves the callback and no method activation
\* receives the value; no callback runs during the evaluation that
\* scheduled it: when the evaluation ends, each callback it scheduled is
\* pending and none has begun.
CallbacksContainFailures ==
  /\ [](\A i \in EventsOf("callback") : CallbackContained(i))
  /\ [][(\E code \in Programs : HandleExecute(code)) =>
          /\ EventsOf("timer")' = {}
          /\ Len(timers') = Len(timers) + Cardinality(Scheduled')]_vars

\* C27: the method context of an activation is a child of the environment
\* the send was evaluated in, so a name the method context does not bind
\* itself resolves as it does for the sender: in Shadow, rd is defined at
\* the top level, where x is 1, and its receiver is the root environment;
\* sent from sh, whose context binds x to 2, it answers 2, and sent from
\* the top level it answers 1.
SenderChainVisible ==
  /\ \A i \in EventsOf("enter") :
       /\ i > 1 /\ trace[i - 1].e = "send" /\ trace[i - 1].s = trace[i].s
       /\ trace[i - 1].env = trace[i].tgt
       /\ heap.envs[trace[i].env].parent = trace[i - 1].env
       /\ heap.envs[trace[i].env].isMC
       /\ \A name \in Names \ DOMAIN heap.envs[trace[i].env].vars :
            EnvGet(heap.envs, trace[i].env, name)
              = EnvGet(heap.envs, trace[i - 1].env, name)
  /\ Executed(Shadow) =>
       \E enters \in {Select(trace, "enter")} :
         /\ Len(enters) >= 3
         /\ SubSeq(Selectors(enters), 1, 3) = <<"sh", "rd", "rd">>
         /\ enters[2].tgt = enters[1].env
         /\ enters[2].w = EnvRef(enters[1].tgt)
         /\ enters[3].tgt = enters[1].tgt
         /\ \E i, j \in EventsOf("catch") :
              /\ trace[i].env = enters[2].env /\ trace[i].v = Num(2)
              /\ trace[j].env = enters[3].env /\ trace[j].v = Num(1)

\* rd ran in a context below the context of sh, where x is 2, with the root
\* environment, where x is 1 and rd is defined, as its receiver
SentFromShadow ==
  /\ Executed(Shadow)
  /\ \E i \in EventsOf("enter") :
       /\ trace[i].s = "rd"
       /\ trace[i].w = EnvRef(environment)
       /\ trace[i].tgt # environment
       /\ lookupMethodLocally(heap.envs, environment, "rd") # Null
       /\ GetLocalOnly(heap.envs, trace[i].tgt, "x") = [found |-> TRUE, v |-> Num(2)]
       /\ GetLocalOnly(heap.envs, environment, "x") = [found |-> TRUE, v |-> Num(1)]
       /\ ~GetLocalOnly(heap.envs, trace[i].env, "x").found

\* C28: when a method activation ends, by the end of its body, by `^` or
\* by an error, the environment the send was evaluated in and its ancestors
\* are as they were when the activation began: self, the arguments, the
\* assignments and the method definitions of the body are in the method
\* context (in Shadow, sh binds x to 2 in its context and the sender keeps
\* its x; in Redefine, f: binds its argument b in its context).
SenderUnchanged ==
  /\ \A i \in EventsOf("left") :
       /\ trace[i].v = Num(0)
       /\ \E j \in EventsOf("enter") :
            j < i /\ trace[j].env = trace[i].env /\ trace[j].tgt = trace[i].tgt
       /\ GetLocalOnly(heap.envs, trace[i].env, "self")
            = [found |-> TRUE, v |-> trace[i].w]
  /\ \A i \in EventsOf("assign") \cup EventsOf("define") :
       \A j \in EventsOf("left") :
         (j > i /\ trace[i].env \in Ancestors(heap.envs, trace[j].tgt))
         => \E k \in EventsOf("enter") : k > i /\ trace[k].env = trace[j].env
  /\ Executed(Redefine) =>
       \E i \in EventsOf("left") :
         /\ trace[i].s = "f:"
         /\ GetLocalOnly(heap.envs, trace[i].env, "b") = [found |-> TRUE, v |-> Num(7)]
         /\ ~EnvGet(heap.envs, trace[i].tgt, "b").found

\* sh has ended by `^` after it had bound x to 2 in its context; the sender
\* still binds x to 1
ActivationsLeft ==
  /\ Executed(Shadow)
  /\ \E i \in EventsOf("left"), j \in EventsOf("assign") :
       /\ trace[i].s = "sh" /\ trace[i].k = "ok" /\ trace[i].v = Num(0)
       /\ j < i /\ trace[j].env = trace[i].env /\ trace[j].s = "x"
       /\ heap.envs[trace[i].env].vars["x"] = Num(2)
       /\ heap.envs[trace[i].tgt].vars["x"] = Num(1)

\* C29: running a block leaves the bindings of its lexicalScope as they
\* were, whether it is sent value or run by the callback of
\* setTimeout:delay:: the assignments of the body bind in a new child
\* environment, so no assignment of a callback binds in the lexicalScope of
\* its block, and for a block that is scheduled both ways of running it
\* leave every environment of the heap as it is.
BlockRunsInChild ==
  /\ \A i \in EventsOf("callback"), k \in EventsOf("assign") :
       (StartOf(i) < k /\ k < i) => trace[k].env # trace[i].env
  /\ environment # 0 =>
       \A t \in DOMAIN timers :
         \E called \in {runScheduledBlock(Machine, timers[t])},
            sent \in {sendMessage(Machine, timers[t], "value", <<>>, environment)} :
           \A c \in DOMAIN heap.envs :
             called.envs[c] = heap.envs[c] /\ sent.st.envs[c] = heap.envs[c]

\* C30: under every interleaving of the load started at mount and the loads
\* started by reloadEnvironment, isLoading is true while a load of the base
\* environment is in flight, and once no load is in flight exactly one of
\* environment and error is set.
ReloadStateSettles ==
  /\ inFlight > 0 => isLoading
  /\ inFlight = 0 => ((environment # 0) # envError)

====
